---- MODULE Spec2Model ----
(***************************************************************************)
(* Inventory ledger and sale-settlement engine of pharmacy-pos.            *)
(*                                                                         *)
(* The database is the state: lots, the stock-movement log, sales, sale    *)
(* items (each with its SaleItemLot rows), payments and customers.  Every  *)
(* operation of the models (Model.save / Model.delete and the methods they *)
(* call) and every API view is one action; an operation that raises inside *)
(* transaction.atomic leaves the database as it was.                       *)
(*                                                                         *)
(* Money is a Decimal.  A Decimal is modelled as an integer number of      *)
(* 10^-(DecimalPlaces+GuardDigits) units: stored columns hold multiples of *)
(* Cent (two decimal places), in-memory values keep GuardDigits more.      *)
(***************************************************************************)
EXTENDS Integers, Sequences, FiniteSets, TLC

(***************************************************************************)
(* Bounds of the model.                                                    *)
(***************************************************************************)
MaxLots == 2          \* lots that can be received
MaxLotQty == 4        \* largest initial quantity of a lot
MaxQty == 2           \* largest quantity of a sale line / stock movement
MaxDay == 1           \* the clock runs over days 0..MaxDay
MaxMovements == 3     \* rows the stock-movement log can hold
MaxSales == 2         \* sales that can be recorded
MaxPayments == 2      \* payments that can be recorded
GuardDigits == 2      \* in-memory decimal digits kept beyond the stored ones

DecimalPlaces == 2    \* decimal_places of every money column

RECURSIVE Pow10(_)
Pow10(n) == IF n = 0 THEN 1 ELSE 10 * Pow10(n - 1)

Cent == Pow10(GuardDigits)                   \* Decimal('0.01')
One == Pow10(GuardDigits + DecimalPlaces)    \* Decimal('1.00')
GNF(n) == n * One

Products == {1, 2}
Customers == {1, 2}
NoCustomer == 0          \* customer_id of a sale without a customer (None)
ExpirationDates == 1..(MaxDay + 1)
Quantities == 1..MaxQty
SaleIds == 1..MaxSales
PaymentIds == 1..MaxPayments
MovementTypes == {"in", "out", "adjustment"}

Min(a, b) == IF a <= b THEN a ELSE b

(***************************************************************************)
(* Decimal arithmetic.                                                     *)
(***************************************************************************)
\* x / y in the Decimal context: rounded half-even to the model's precision.
DecDiv(x, y) ==
    LET q == x \div y
        r == x % y
    IN  IF 2 * r < y THEN q
        ELSE IF 2 * r > y THEN q + 1
        ELSE IF q % 2 = 0 THEN q ELSE q + 1

\* The value a DecimalField(decimal_places=2) column holds after a write.
Quantize(x) == DecDiv(x, Cent) * Cent

\* (amount * rate) / 100 with `rate` in percent: the whole percents and the
\* fraction of a percent are applied one after the other.
PercentOf(amount, rate) ==
    (amount * (rate \div One)) \div 100 + (amount * (rate % One)) \div (100 * One)

VARIABLES
    today,       \* date.today()
    lots,        \* catalog_lot, in creation order: the index is the pk
    movements,   \* catalog_stockmovement, in creation order
    sales,       \* sales_sale, pk -> row
    items,       \* sales_saleitem with its lot_items, <<sale, product>> -> row
    payments,    \* sales_payment, pk -> row
    customers,   \* sales_customer, pk -> credit_balance
    txns,        \* the requests in flight: each one's position and what it read
    lastOp       \* the last operation requested and how it ended

vars == <<today, lots, movements, sales, items, payments, customers, txns, lastOp>>

\* The database as one value, so that an operation is a function on it.
DB == [lots |-> lots, movements |-> movements, sales |-> sales, items |-> items,
       payments |-> payments, customers |-> customers]

Ok(db) == [err |-> "ok", db |-> db]
Raise(e, db) == [err |-> e, db |-> db]

\* f without the key k.
Without(f, k) == [x \in DOMAIN f \ {k} |-> f[x]]

(***************************************************************************)
(* catalog: Lot, StockMovement, Product                                    *)
(***************************************************************************)
\* Lot.save of a new lot: remaining_quantity starts at quantity.
NewLot(product, quantity, expiration_date, sale_price) ==
    [product |-> product, quantity |-> quantity, remaining_quantity |-> quantity,
     expiration_date |-> expiration_date, is_active |-> TRUE, sale_price |-> sale_price]

\* Lot.is_expired.
is_expired(lot, day) == lot.expiration_date <= day

\* A variant of Lot.adjust_quantity without the check against the initial
\* quantity.
adjust_quantity_unchecked_above(db, id, remaining_quantity, quantity_delta) ==
    LET new_quantity == remaining_quantity + quantity_delta
    IN  IF new_quantity < 0
        THEN [err |-> "QuantiteInsuffisanteLot", db |-> db, remaining_quantity |-> remaining_quantity]
        ELSE [err |-> "ok",
              db |-> [db EXCEPT !.lots[id].remaining_quantity = new_quantity],
              remaining_quantity |-> new_quantity]

\* Lot.adjust_quantity on an instance of lot `id` whose in-memory
\* remaining_quantity is `remaining_quantity`; the new value is written to the row.
adjust_quantity(db, id, remaining_quantity, quantity_delta) ==
    LET new_quantity == remaining_quantity + quantity_delta
    IN  IF new_quantity < 0
        THEN [err |-> "QuantiteInsuffisanteLot", db |-> db, remaining_quantity |-> remaining_quantity]
        ELSE IF new_quantity > db.lots[id].quantity
        THEN [err |-> "DepasseQuantiteInitiale", db |-> db, remaining_quantity |-> remaining_quantity]
        ELSE [err |-> "ok",
              db |-> [db EXCEPT !.lots[id].remaining_quantity = new_quantity],
              remaining_quantity |-> new_quantity]

\* StockMovement.apply_to_lot.
apply_to_lot(db, id, remaining_quantity, movement_type, quantity) ==
    IF movement_type = "adjustment"
    THEN [err |-> "ok",
          db |-> [db EXCEPT !.lots[id].remaining_quantity = quantity],
          remaining_quantity |-> quantity]
    ELSE IF movement_type = "in"
    THEN adjust_quantity(db, id, remaining_quantity, quantity)
    ELSE adjust_quantity(db, id, remaining_quantity, -quantity)

\* A variant of StockMovement.save that stores the row before it applies the
\* movement to the lot.
StockMovementSaveThenApply(db, id, remaining_quantity, movement_type, quantity, skip_lot_update) ==
    LET row == [lot |-> id, movement_type |-> movement_type, quantity |-> quantity]
        db1 == [db EXCEPT !.movements = Append(@, row)]
        applied == IF skip_lot_update
                   THEN [err |-> "ok", db |-> db1, remaining_quantity |-> remaining_quantity]
                   ELSE apply_to_lot(db1, id, remaining_quantity, movement_type, quantity)
    IN  applied

\* StockMovement.save of a new movement whose lot is the given instance.
StockMovementSave(db, id, remaining_quantity, movement_type, quantity, skip_lot_update) ==
    LET applied == IF skip_lot_update
                   THEN [err |-> "ok", db |-> db, remaining_quantity |-> remaining_quantity]
                   ELSE apply_to_lot(db, id, remaining_quantity, movement_type, quantity)
        row == [lot |-> id, movement_type |-> movement_type, quantity |-> quantity]
    IN  IF applied.err # "ok" THEN applied
        ELSE [applied EXCEPT !.db.movements = Append(@, row)]

\* Product.sale_price: the sale price of the active lot created last.
ProductSalePrice(db, product) ==
    LET active == {i \in DOMAIN db.lots :
                      db.lots[i].product = product /\ db.lots[i].is_active}
    IN  IF active = {} THEN 0
        ELSE db.lots[CHOOSE i \in active : \A j \in active : j <= i].sale_price

(***************************************************************************)
(* sales: Sale (settlement)                                                *)
(***************************************************************************)
SaleFields == {"customer", "subtotal", "tax_amount", "discount_type", "discount_value",
               "discount_amount", "total_amount", "amount_paid", "balance_due", "status"}

MoneyFields == SaleFields \ {"customer", "discount_type", "status"}

RECURSIVE SumLineTotal(_, _)
SumLineTotal(rows, keys) ==
    IF keys = {} THEN 0
    ELSE LET k == CHOOSE x \in keys : TRUE
         IN  rows[k].line_total + SumLineTotal(rows, keys \ {k})

\* self.items.aggregate(total=Sum('line_total'))['total'] or Decimal('0.00')
ItemsSubtotal(db, sale) ==
    SumLineTotal(db.items, {k \in DOMAIN db.items : k[1] = sale})

RECURSIVE SumAmount(_, _)
SumAmount(rows, keys) ==
    IF keys = {} THEN 0
    ELSE LET k == CHOOSE x \in keys : TRUE
         IN  rows[k].amount + SumAmount(rows, keys \ {k})

\* self.payments.aggregate(total=Sum('amount'))['total'] or Decimal('0.00')
PaymentsTotal(db, sale) ==
    SumAmount(db.payments, {p \in DOMAIN db.payments : db.payments[p].sale = sale})

RECURSIVE SumBalanceDue(_, _)
SumBalanceDue(rows, keys) ==
    IF keys = {} THEN 0
    ELSE LET k == CHOOSE x \in keys : TRUE
         IN  rows[k].balance_due + SumBalanceDue(rows, keys \ {k})

\* A variant summing the balance of every sale of the customer, overpaid ones
\* included.
CreditTotalNet(db, customer) ==
    SumBalanceDue(db.sales, {s \in DOMAIN db.sales : db.sales[s].customer = customer})

\* The aggregate of Sale.recalculate_customer_credit.
CreditTotal(db, customer) ==
    SumBalanceDue(db.sales, {s \in DOMAIN db.sales :
                                db.sales[s].customer = customer /\ db.sales[s].balance_due > 0})

\* Sale.recalculate_customer_credit.
recalculate_customer_credit(db, customer_id) ==
    IF customer_id = NoCustomer \/ customer_id \notin DOMAIN db.customers THEN db
    ELSE [db EXCEPT !.customers[customer_id] = CreditTotal(db, customer_id)]

\* Sale.calculate_discount_amount.  discount_value / 100 and the product are
\* exact Decimal operations; the quotient below is exact whenever subtotal is
\* a stored amount and discount_value a whole percentage.
calculate_discount_amount(inst, subtotal) ==
    IF inst.discount_type = "percentage"
    THEN PercentOf(subtotal, inst.discount_value)
    ELSE inst.discount_value

\* A variant of Sale.compute_status for which a sale nothing was paid on is
\* a draft, whatever its total.
compute_status_unpaid_is_draft(inst) ==
    IF inst.amount_paid <= 0 THEN "draft"
    ELSE IF inst.amount_paid >= inst.total_amount THEN "paid"
    ELSE "partial"

\* Sale.compute_status.
compute_status(inst) ==
    IF inst.amount_paid >= inst.total_amount THEN "paid"
    ELSE IF inst.amount_paid > 0 THEN "partial"
    ELSE "draft"

\* hasattr(self, '_totals_updated'): nothing ever sets the attribute.
totals_updated == FALSE

\* A variant of Sale.save that recalculates the credit of the sale's new
\* customer only.
SaleSaveNewCustomerOnly(db, sale, inst, update_fields) ==
    LET i1 == IF ~totals_updated
              THEN [inst EXCEPT !.subtotal = ItemsSubtotal(db, sale) - inst.discount_amount]
              ELSE inst
        i2 == [i1 EXCEPT !.total_amount = i1.subtotal + i1.tax_amount]
        i3 == [i2 EXCEPT !.balance_due = i2.total_amount - i2.amount_paid]
        i4 == [i3 EXCEPT !.status = compute_status(i3)]
        row == [f \in SaleFields |->
                   IF f \notin update_fields THEN db.sales[sale][f]
                   ELSE IF f \in MoneyFields THEN Quantize(i4[f])
                   ELSE i4[f]]
    IN  [db |-> recalculate_customer_credit([db EXCEPT !.sales[sale] = row], i4.customer),
         inst |-> i4]

\* Sale.save of the instance `inst` of an existing sale (self.pk is set);
\* update_fields restricts the columns written.  Yields the database and the
\* instance as save leaves it.
SaleSave(db, sale, inst, update_fields) ==
    LET previous_customer_id == db.sales[sale].customer
        i1 == IF ~totals_updated
              THEN [inst EXCEPT !.subtotal = ItemsSubtotal(db, sale) - inst.discount_amount]
              ELSE inst
        i2 == [i1 EXCEPT !.total_amount = i1.subtotal + i1.tax_amount]
        i3 == [i2 EXCEPT !.balance_due = i2.total_amount - i2.amount_paid]
        i4 == [i3 EXCEPT !.status = compute_status(i3)]
        row == [f \in SaleFields |->
                   IF f \notin update_fields THEN db.sales[sale][f]
                   ELSE IF f \in MoneyFields THEN Quantize(i4[f])
                   ELSE i4[f]]
        db1 == [db EXCEPT !.sales[sale] = row]
        db2 == IF previous_customer_id # NoCustomer /\ previous_customer_id # i4.customer
               THEN recalculate_customer_credit(db1, previous_customer_id)
               ELSE db1
    IN  [db |-> recalculate_customer_credit(db2, i4.customer), inst |-> i4]

\* Sale.update_totals_from_items on the instance `inst`.
update_totals_from_items(db, sale, inst) ==
    LET subtotal == ItemsSubtotal(db, sale)
        discount_amount == calculate_discount_amount(inst, subtotal)
        i1 == [inst EXCEPT !.subtotal = subtotal - discount_amount]
        i2 == [i1 EXCEPT !.total_amount = i1.subtotal + i1.tax_amount]
        i3 == [i2 EXCEPT !.balance_due = i2.total_amount - i2.amount_paid]
        i4 == [i3 EXCEPT !.status = compute_status(i3)]
    IN  SaleSave(db, sale, i4, {"subtotal", "total_amount", "balance_due", "status"})

\* Sale.refresh_payment_summary on the instance `inst`.
refresh_payment_summary(db, sale, inst) ==
    LET payments_total == PaymentsTotal(db, sale)
        i1 == [inst EXCEPT !.amount_paid = payments_total]
        i2 == [i1 EXCEPT !.balance_due = i1.total_amount - payments_total]
        i3 == [i2 EXCEPT !.status = compute_status(i2)]
    IN  SaleSave(db, sale, i3, {"amount_paid", "balance_due", "status"})

\* Sale.save of a new sale (self.pk is None): the totals are derived from the
\* fields as given, the items are not read.
SaleSaveNew(db, sale, inst) ==
    LET i2 == [inst EXCEPT !.total_amount = inst.subtotal + inst.tax_amount]
        i3 == [i2 EXCEPT !.balance_due = i2.total_amount - i2.amount_paid]
        i4 == [i3 EXCEPT !.status = compute_status(i3)]
        db1 == [db EXCEPT !.sales = @ @@ (sale :> i4)]
    IN  [db |-> recalculate_customer_credit(db1, i4.customer), inst |-> i4]

\* The field defaults of Sale.
DefaultSale(customer) ==
    [customer |-> customer, subtotal |-> 0, tax_amount |-> 0, discount_type |-> "amount",
     discount_value |-> 0, discount_amount |-> 0, total_amount |-> 0, amount_paid |-> 0,
     balance_due |-> 0, status |-> "draft"]

(***************************************************************************)
(* sales: the FEFO allocator (SaleItem._get_lots_for_sale)                 *)
(***************************************************************************)
\* The filter of the allocator's query.
\* A variant that still sells a lot on its expiration date.
IsCandidateOnExpirationDate(lot, day, product) ==
    /\ lot.product = product
    /\ lot.is_active
    /\ lot.expiration_date >= day
    /\ lot.remaining_quantity > 0

IsCandidate(lot, day, product) ==
    /\ lot.product = product
    /\ lot.is_active
    /\ lot.expiration_date > day
    /\ lot.remaining_quantity > 0

\* A variant ordering the lots by creation alone.
BeforeByCreation(db, i, j) == i < j

\* order_by('expiration_date', 'created_at'): lot i comes before lot j.
Before(db, i, j) ==
    \/ db.lots[i].expiration_date < db.lots[j].expiration_date
    \/ /\ db.lots[i].expiration_date = db.lots[j].expiration_date
       /\ i < j

RECURSIVE OrderBy(_, _)
OrderBy(db, ids) ==
    IF ids = {} THEN <<>>
    ELSE LET first == CHOOSE i \in ids : \A j \in ids \ {i} : Before(db, i, j)
         IN  <<first>> \o OrderBy(db, ids \ {first})

\* The evaluated queryset: the candidate lots in FEFO order, each an instance
\* holding the remaining_quantity read.
available_lots(db, day, product) ==
    LET ids == OrderBy(db, {i \in DOMAIN db.lots : IsCandidate(db.lots[i], day, product)})
    IN  [n \in DOMAIN ids |->
            [lot |-> ids[n], remaining_quantity |-> db.lots[ids[n]].remaining_quantity]]

\* The loop over the candidates: (lot, quantity_from_lot) pairs.
RECURSIVE DrawFrom(_, _)
DrawFrom(candidates, remaining_quantity) ==
    IF candidates = <<>> \/ remaining_quantity <= 0 THEN <<>>
    ELSE LET lot == Head(candidates)
             quantity_from_lot == Min(lot.remaining_quantity, remaining_quantity)
         IN  <<[lot |-> lot.lot, quantity |-> quantity_from_lot,
                remaining_quantity |-> lot.remaining_quantity]>>
             \o DrawFrom(Tail(candidates), remaining_quantity - quantity_from_lot)

RECURSIVE SumQuantity(_)
SumQuantity(pairs) ==
    IF pairs = <<>> THEN 0 ELSE Head(pairs).quantity + SumQuantity(Tail(pairs))

NoAlloc == [err |-> "ok", lots_to_use |-> <<>>, requested |-> 0, available |-> 0]

\* SaleItem._get_lots_for_sale.
get_lots_for_sale(db, day, product, quantity_needed) ==
    LET lots_to_use == DrawFrom(available_lots(db, day, product), quantity_needed)
        remaining_quantity == quantity_needed - SumQuantity(lots_to_use)
    IN  IF remaining_quantity > 0
        THEN [err |-> "StockInsuffisant", lots_to_use |-> <<>>,
              requested |-> quantity_needed,
              available |-> quantity_needed - remaining_quantity]
        ELSE [err |-> "ok", lots_to_use |-> lots_to_use,
              requested |-> quantity_needed, available |-> quantity_needed]

(***************************************************************************)
(* sales: SaleItem and SaleItemLot                                         *)
(***************************************************************************)
\* SaleItem._create_sale_item_lots: per pair a SaleItemLot, lot.adjust_quantity
\* and a new `out` StockMovement on the same lot instance.
RECURSIVE create_sale_item_lots(_, _, _)
create_sale_item_lots(db, key, lots_to_use) ==
    IF lots_to_use = <<>> THEN Ok(db)
    ELSE LET pair == Head(lots_to_use)
             sil == [lot |-> pair.lot, quantity |-> pair.quantity,
                     unit_price |-> db.lots[pair.lot].sale_price]
             db1 == [db EXCEPT !.items[key].lot_items = Append(@, sil)]
             adj == adjust_quantity(db1, pair.lot, pair.remaining_quantity, -pair.quantity)
             mov == StockMovementSave(adj.db, pair.lot, adj.remaining_quantity,
                                      "out", pair.quantity, FALSE)
         IN  IF adj.err # "ok" THEN Raise(adj.err, adj.db)
             ELSE IF mov.err # "ok" THEN Raise(mov.err, mov.db)
             ELSE create_sale_item_lots(mov.db, key, Tail(lots_to_use))

\* A variant of the loop that gives each quantity back through the `in`
\* StockMovement alone.
RECURSIVE restore_lots_by_movement(_, _)
restore_lots_by_movement(db, sale_item_lots) ==
    IF sale_item_lots = <<>> THEN Ok(db)
    ELSE LET sil == Head(sale_item_lots)
             mov == StockMovementSave(db, sil.lot, db.lots[sil.lot].remaining_quantity,
                                      "in", sil.quantity, FALSE)
         IN  IF mov.err # "ok" THEN Raise(mov.err, mov.db)
             ELSE restore_lots_by_movement(mov.db, Tail(sale_item_lots))

\* The loop of SaleItem._remove_sale_item_lots over the SaleItemLot rows:
\* sale_item_lot.lot is read from the database, adjusted, and a new `in`
\* StockMovement is created on the same instance.
RECURSIVE restore_lots(_, _)
restore_lots(db, sale_item_lots) ==
    IF sale_item_lots = <<>> THEN Ok(db)
    ELSE LET sil == Head(sale_item_lots)
             adj == adjust_quantity(db, sil.lot, db.lots[sil.lot].remaining_quantity,
                                    sil.quantity)
             mov == StockMovementSave(adj.db, sil.lot, adj.remaining_quantity,
                                      "in", sil.quantity, FALSE)
         IN  IF adj.err # "ok" THEN Raise(adj.err, adj.db)
             ELSE IF mov.err # "ok" THEN Raise(mov.err, mov.db)
             ELSE restore_lots(mov.db, Tail(sale_item_lots))

\* A variant that deletes the SaleItemLot rows and leaves the lots alone.
forget_sale_item_lots(db, key) == Ok([db EXCEPT !.items[key].lot_items = <<>>])

\* A variant that gives the stock back and keeps the SaleItemLot rows.
keep_sale_item_lots(db, key) == restore_lots(db, db.items[key].lot_items)

\* SaleItem._remove_sale_item_lots.
remove_sale_item_lots(db, key) ==
    LET restored == restore_lots(db, db.items[key].lot_items)
    IN  IF restored.err # "ok" THEN restored
        ELSE Ok([restored.db EXCEPT !.items[key].lot_items = <<>>])

\* A variant without the transaction: what was written before the exception
\* stays written.
NotAtomic(db, result) == result

\* @transaction.atomic: an exception leaves the database as it was on entry.
Atomic(db, result) ==
    IF result.err = "ok" THEN result ELSE [result EXCEPT !.db = db]

\* SaleItem.save, its last statement: self.sale.update_totals_from_items(),
\* reached unless the allocation raised.  `inst` is the Sale instance behind
\* self.sale.
SaleItemSaveTotals(created, alloc, sale, inst) ==
    IF created.err # "ok"
    THEN [err |-> created.err, db |-> created.db, inst |-> inst, alloc |-> alloc]
    ELSE LET totals == update_totals_from_items(created.db, sale, inst)
         IN  [err |-> "ok", db |-> totals.db, inst |-> totals.inst, alloc |-> alloc]

\* SaleItem.save, self._create_sale_item_lots(lots_to_use) for the lots the
\* allocator returned.
SaleItemSaveLots(removed, alloc, key, inst) ==
    SaleItemSaveTotals(IF removed.err # "ok" THEN removed
                       ELSE IF alloc.err # "ok" THEN Raise(alloc.err, removed.db)
                       ELSE create_sale_item_lots(removed.db, key, alloc.lots_to_use),
                       alloc, key[1], inst)

\* SaleItem.save, lots_to_use = self._get_lots_for_sale(self.quantity), for a
\* new line or a changed quantity.
SaleItemSaveAllocate(removed, reallocate, day, key, quantity, inst) ==
    SaleItemSaveLots(removed,
                     IF reallocate /\ removed.err = "ok"
                     THEN get_lots_for_sale(removed.db, day, key[2], quantity)
                     ELSE NoAlloc,
                     key, inst)

\* The body of SaleItem.save.  unit_price = 0 stands for "not given".
SaleItemSaveBody(db, day, sale, product, quantity, unit_price, is_new, inst) ==
    LET key == <<sale, product>>
        price == IF unit_price = 0 THEN ProductSalePrice(db, product) ELSE unit_price
        previous_quantity == IF is_new THEN 0 ELSE db.items[key].quantity
        row == [quantity |-> quantity, unit_price |-> Quantize(price),
                line_total |-> Quantize(price * quantity),
                lot_items |-> IF is_new THEN <<>> ELSE db.items[key].lot_items]
        db1 == [db EXCEPT !.items = IF is_new THEN @ @@ (key :> row)
                                    ELSE [@ EXCEPT ![key] = row]]
        quantity_diff == quantity - previous_quantity
    IN  SaleItemSaveAllocate(IF is_new \/ quantity_diff = 0 THEN Ok(db1)
                             ELSE remove_sale_item_lots(db1, key),
                             is_new \/ quantity_diff # 0, day, key, quantity, inst)

\* SaleItem.save.
SaleItemSave(db, day, sale, product, quantity, unit_price, is_new, inst) ==
    Atomic(db, SaleItemSaveBody(db, day, sale, product, quantity, unit_price, is_new, inst))

\* The body of SaleItem.delete.
SaleItemDeleteBody(db, sale, product) ==
    LET key == <<sale, product>>
        removed == remove_sale_item_lots(db, key)
        db1 == [removed.db EXCEPT !.items = Without(@, key)]
    IN  IF removed.err # "ok" THEN removed
        ELSE Ok(update_totals_from_items(db1, sale, db1.sales[sale]).db)

\* SaleItem.delete.
SaleItemDelete(db, sale, product) == Atomic(db, SaleItemDeleteBody(db, sale, product))

(***************************************************************************)
(* sales: Payment                                                          *)
(***************************************************************************)
\* Payment.save (new or existing row `id`); `inst` is the Sale instance
\* behind self.sale.
PaymentSave(db, id, sale, amount, inst) ==
    LET row == [sale |-> sale, amount |-> Quantize(amount)]
        db1 == [db EXCEPT !.payments = IF id \in DOMAIN @ THEN [@ EXCEPT ![id] = row]
                                       ELSE @ @@ (id :> row)]
    IN  refresh_payment_summary(db1, sale, inst)

\* A variant of Payment.delete that removes the row and leaves the sale alone.
PaymentDeleteOnly(db, id, inst) ==
    [db |-> [db EXCEPT !.payments = Without(@, id)], inst |-> inst]

\* Payment.delete.
PaymentDelete(db, id, inst) ==
    LET sale == db.payments[id].sale
        db1 == [db EXCEPT !.payments = Without(@, id)]
    IN  refresh_payment_summary(db1, sale, inst)

(***************************************************************************)
(* sales/api_views.py: create_sale and update_sale                         *)
(*                                                                         *)
(* A request is [customer_id, tax_amount, discount_type, discount_value,   *)
(* items, payments]; items is a sequence of [product_id, quantity] and     *)
(* payments a sequence of [id, amount] (id 0: none given).  A response is  *)
(* its HTTP status.                                                        *)
(***************************************************************************)
RECURSIVE SumRemaining(_)
SumRemaining(instances) ==
    IF instances = <<>> THEN 0
    ELSE Head(instances).remaining_quantity + SumRemaining(Tail(instances))

RECURSIVE SumPrice(_, _)
SumPrice(db, pairs) ==
    IF pairs = <<>> THEN 0
    ELSE db.lots[Head(pairs).lot].sale_price * Head(pairs).quantity
         + SumPrice(db, Tail(pairs))

\* update_sale, "Restaurer le stock des items existants d'abord": the lots of
\* the existing line are adjusted, before any transaction has begun and
\* without a StockMovement.
RECURSIVE restore_existing(_, _)
restore_existing(db, sale_item_lots) ==
    IF sale_item_lots = <<>> THEN Ok(db)
    ELSE LET sil == Head(sale_item_lots)
             adj == adjust_quantity(db, sil.lot, db.lots[sil.lot].remaining_quantity,
                                    sil.quantity)
         IN  IF adj.err # "ok" THEN Raise(adj.err, adj.db)
             ELSE restore_existing(adj.db, Tail(sale_item_lots))

\* The validation loop over the request's items (sale = 0: create_sale, which
\* knows no existing line).  Yields the database, whether an error was
\* recorded, the validated items and the exception that escaped, if any.
RECURSIVE validate_items(_, _, _, _)
validate_items(db, day, sale, items_data) ==
    IF items_data = <<>>
    THEN [err |-> "ok", db |-> db, errors |-> FALSE, validated_items |-> <<>>]
    ELSE
    LET item_data == Head(items_data)
        product == item_data.product_id
        quantity == item_data.quantity
        key == <<sale, product>>
        lots_read == available_lots(db, day, product)
        existing == key \in DOMAIN db.items
        existing_quantity == IF existing THEN db.items[key].quantity ELSE 0
        total_available == SumRemaining(lots_read) + existing_quantity
        increase == existing /\ quantity > existing_quantity
        restored == IF increase THEN restore_existing(db, db.items[key].lot_items)
                    ELSE Ok(db)
        remaining_qty == IF increase
                         THEN quantity - SumQuantity(db.items[key].lot_items)
                         ELSE quantity
        lots_to_use == DrawFrom(lots_read, remaining_qty)
        total_price == SumPrice(db, lots_to_use)
        average_price == DecDiv(total_price, quantity)
        line_total == average_price * quantity
        valid == [product |-> product, quantity |-> quantity,
                  unit_price |-> average_price, line_total |-> line_total,
                  lots |-> lots_to_use]
        rejected == \/ product \notin Products
                    \/ quantity <= 0
                    \/ total_available < quantity
        rest == validate_items(IF rejected THEN db ELSE restored.db,
                               day, sale, Tail(items_data))
    IN  IF rejected THEN [rest EXCEPT !.errors = TRUE]
        ELSE IF restored.err # "ok"
        THEN [err |-> restored.err, db |-> restored.db, errors |-> TRUE,
              validated_items |-> <<>>]
        ELSE [rest EXCEPT !.validated_items = <<valid>> \o @]

KnownDiscountType(discount_type) == discount_type \in {"amount", "percentage"}

\* The request fields checked before the transaction, items apart.
request_errors(db, data) ==
    \/ data.customer_id = NoCustomer
    \/ data.customer_id \notin DOMAIN db.customers
    \/ ~KnownDiscountType(data.discount_type)
    \/ data.discount_value < 0
    \/ data.items = <<>>
    \/ data.payments = <<>>
    \/ \E n \in DOMAIN data.payments : data.payments[n].amount <= 0

RECURSIVE SumLines(_)
SumLines(validated_items) ==
    IF validated_items = <<>> THEN 0
    ELSE Head(validated_items).line_total + SumLines(Tail(validated_items))

\* A variant that lets every discount through.
discount_never_rejected(discount_type, discount_value, subtotal) == FALSE

\* The discount checks made inside the transaction.
discount_rejected(discount_type, discount_value, subtotal) ==
    IF discount_type = "percentage"
    THEN \/ discount_value > 100 * One
         \/ subtotal - PercentOf(subtotal, discount_value) < 0
    ELSE \/ discount_value > subtotal
         \/ subtotal - discount_value < 0

\* create_sale.  Sale.objects.create(..., status=Sale.Status.PENDING) raises
\* AttributeError (Sale.Status has DRAFT, PAID and PARTIAL only): the handler
\* answers 500 and the transaction is rolled back.
create_sale(db, day, data) ==
    LET checked == validate_items(db, day, 0, data.items)
        subtotal == SumLines(checked.validated_items)
    IN  IF request_errors(db, data) \/ checked.errors THEN [status |-> 400, db |-> db]
        ELSE IF discount_rejected(data.discount_type, data.discount_value, subtotal)
        THEN [status |-> 400, db |-> db]
        ELSE [status |-> 500, db |-> db]

\* update_sale, "Restaurer les stocks des items existants": every line of the
\* sale, every SaleItemLot of the line.
RECURSIVE restore_items(_, _)
restore_items(db, keys) ==
    IF keys = {} THEN Ok(db)
    ELSE LET key == CHOOSE k \in keys : \A k2 \in keys : k[2] <= k2[2]
             restored == restore_lots(db, db.items[key].lot_items)
         IN  IF restored.err # "ok" THEN restored
             ELSE restore_items(restored.db, keys \ {key})

\* update_sale, "Ajuster les stocks (FEFO)": the lot instances read during
\* validation are adjusted and a new `out` StockMovement is created on each.
RECURSIVE adjust_stocks(_, _)
adjust_stocks(db, lots_info) ==
    IF lots_info = <<>> THEN Ok(db)
    ELSE LET pair == Head(lots_info)
             adj == adjust_quantity(db, pair.lot, pair.remaining_quantity, -pair.quantity)
             mov == StockMovementSave(adj.db, pair.lot, adj.remaining_quantity,
                                      "out", pair.quantity, FALSE)
         IN  IF adj.err # "ok" THEN Raise(adj.err, adj.db)
             ELSE IF mov.err # "ok" THEN Raise(mov.err, mov.db)
             ELSE adjust_stocks(mov.db, Tail(lots_info))

\* update_sale, the loop creating the new lines: SaleItem.objects.create runs
\* SaleItem.save inside the view's transaction, then the view adjusts the
\* stocks itself.
RECURSIVE create_items(_, _, _, _, _)
create_item_adjusted(adjusted, saved, day, sale, validated_items) ==
    IF adjusted.err # "ok"
    THEN [err |-> adjusted.err, db |-> adjusted.db, inst |-> saved.inst]
    ELSE create_items(adjusted.db, day, sale, Tail(validated_items), saved.inst)

create_item_saved(saved, day, sale, validated_items) ==
    IF saved.err # "ok" THEN [err |-> saved.err, db |-> saved.db, inst |-> saved.inst]
    ELSE create_item_adjusted(adjust_stocks(saved.db, Head(validated_items).lots),
                              saved, day, sale, validated_items)

create_items(db, day, sale, validated_items, inst) ==
    IF validated_items = <<>> THEN [err |-> "ok", db |-> db, inst |-> inst]
    ELSE LET item_data == Head(validated_items)
         IN  IF <<sale, item_data.product>> \in DOMAIN db.items
             THEN [err |-> "IntegrityError", db |-> db, inst |-> inst]
             ELSE create_item_saved(
                      SaleItemSaveBody(db, day, sale, item_data.product, item_data.quantity,
                                       item_data.unit_price, TRUE, inst),
                      day, sale, validated_items)

\* The smallest primary key no row of the table uses.
NewId(rows) == CHOOSE id \in 1..(Cardinality(DOMAIN rows) + 1) : id \notin DOMAIN rows

\* update_sale, the loop updating or creating the payments; `existing` are the
\* payments the sale had when the loop began.
RECURSIVE save_payments(_, _, _, _, _, _)
save_payments(db, sale, validated_payments, existing, inst, keep) ==
    IF validated_payments = <<>> THEN [db |-> db, inst |-> inst, keep |-> keep]
    ELSE LET payment_data == Head(validated_payments)
             id == IF payment_data.id # 0 /\ payment_data.id \in existing
                   THEN payment_data.id ELSE NewId(db.payments)
             saved == PaymentSave(db, id, sale, payment_data.amount, inst)
         IN  save_payments(saved.db, sale, Tail(validated_payments), existing,
                           saved.inst, keep \cup {id})

\* update_sale, the loop deleting the payments the request no longer lists.
RECURSIVE delete_payments(_, _, _)
delete_payments(db, ids, inst) ==
    IF ids = {} THEN [db |-> db, inst |-> inst]
    ELSE LET id == CHOOSE p \in ids : \A p2 \in ids : p <= p2
             deleted == PaymentDelete(db, id, inst)
         IN  delete_payments(deleted.db, ids \ {id}, deleted.inst)

\* update_sale, the end of the transaction: amount_paid, balance_due and
\* status are set from the request's payments and saved, and the customer's
\* credit is recalculated.
update_sale_summary(deleted, sale, data) ==
    LET total_paid == SumAmount(data.payments, DOMAIN data.payments)
        summed == [deleted.inst EXCEPT !.amount_paid = total_paid,
                                       !.balance_due = deleted.inst.total_amount - total_paid]
    IN  [status |-> 200,
         db |-> recalculate_customer_credit(
                    SaleSave(deleted.db, sale,
                             [summed EXCEPT !.status = compute_status(summed)],
                             {"amount_paid", "balance_due", "status"}).db,
                    data.customer_id)]

update_sale_delete_payments(paid, existing, sale, data) ==
    update_sale_summary(delete_payments(paid.db, existing \ paid.keep, paid.inst), sale, data)

\* update_sale, "Gérer les paiements".
update_sale_payments(created, existing, sale, data) ==
    update_sale_delete_payments(
        save_payments(created.db, sale, data.payments, existing, created.inst, {}),
        existing, sale, data)

update_sale_created(created, db, sale, data) ==
    IF created.err # "ok" THEN [status |-> 500, db |-> db]
    ELSE update_sale_payments(
             created,
             {p \in DOMAIN created.db.payments : created.db.payments[p].sale = sale},
             sale, data)

update_sale_items(saved, db, day, sale, data, validated_items) ==
    update_sale_created(create_items(saved.db, day, sale, validated_items, saved.inst),
                        db, sale, data)

\* update_sale, the discount checks and the update of the sale's own fields;
\* db1 is the database after the old lines were deleted.
update_sale_fields(db1, db, day, sale, data, validated_items) ==
    LET subtotal == SumLines(validated_items)
        discount_amount == IF data.discount_type = "percentage"
                           THEN PercentOf(subtotal, data.discount_value)
                           ELSE data.discount_value
        inst == [db1.sales[sale] EXCEPT !.customer = data.customer_id,
                                        !.subtotal = subtotal - discount_amount,
                                        !.tax_amount = data.tax_amount,
                                        !.discount_type = data.discount_type,
                                        !.discount_value = data.discount_value,
                                        !.total_amount = subtotal - discount_amount
                                                         + data.tax_amount]
    IN  IF discount_rejected(data.discount_type, data.discount_value, subtotal)
        THEN [status |-> 400, db |-> db1]
        ELSE update_sale_items(SaleSave(db1, sale, inst, SaleFields),
                               db, day, sale, data, validated_items)

\* update_sale, sale.items.all().delete() once the stocks are restored.
update_sale_restored(restored, db, day, sale, data, validated_items) ==
    IF restored.err # "ok" THEN [status |-> 500, db |-> db]
    ELSE update_sale_fields(
             [restored.db EXCEPT !.items =
                 [k \in {x \in DOMAIN @ : x[1] # sale} |-> @[k]]],
             db, day, sale, data, validated_items)

\* update_sale, the block under transaction.atomic().  A return from inside
\* the block commits what was written; an exception rolls it back.
update_sale_transaction(db, day, sale, data, validated_items) ==
    update_sale_restored(restore_items(db, {k \in DOMAIN db.items : k[1] = sale}),
                         db, day, sale, data, validated_items)

update_sale_checked(checked, db, day, sale, data) ==
    IF checked.err # "ok" THEN [status |-> 500, db |-> checked.db]
    ELSE IF request_errors(db, data) \/ checked.errors
    THEN [status |-> 400, db |-> checked.db]
    ELSE update_sale_transaction(checked.db, day, sale, data, checked.validated_items)

\* update_sale.
update_sale(db, day, sale, data) ==
    update_sale_checked(validate_items(db, day, sale, data.items), db, day, sale, data)

(***************************************************************************)
(* The operations as actions.                                              *)
(***************************************************************************)
Amounts == {GNF(1), GNF(2)}
\* A product_id no Product row has.
UnknownProduct == Cardinality(Products) + 1

RemainingQuantities(db) == [i \in DOMAIN db.lots |-> db.lots[i].remaining_quantity]

\* What lastOp records: the operation, its arguments (`arg` holds the payment
\* amount, the line's previous quantity or the discount and lines of a
\* request), the exception or HTTP status it ended with ("ok" for none), the
\* allocator's report and result, and the lot quantities and the length of the
\* movement log before the operation.
Op(op, err, sale, product, quantity, arg, alloc, db) ==
    [op |-> op, err |-> err, sale |-> sale, product |-> product, quantity |-> quantity,
     arg |-> arg,
     requested |-> alloc.requested, available |-> alloc.available,
     lots_to_use |-> alloc.lots_to_use,
     before |-> RemainingQuantities(db), log_before |-> Len(db.movements),
     undoes_create |-> FALSE]

NoDB == [lots |-> <<>>, movements |-> <<>>]

\* The requests that can be in flight together, and none of them begun.
Procs == {1, 2}
Idle == [pc |-> "idle"]
NoTxns == [p \in Procs |-> Idle]

\* The rows a committed transaction leaves.
CommitRows(db) ==
    /\ Len(db.movements) <= MaxMovements
    /\ lots' = db.lots
    /\ movements' = db.movements
    /\ sales' = db.sales
    /\ items' = db.items
    /\ payments' = db.payments
    /\ customers' = db.customers

\* The commit of a request that runs alone.
Commit(db) ==
    /\ CommitRows(db)
    /\ UNCHANGED txns

\* The date changes between two requests.
AdvanceDay ==
    /\ today < MaxDay
    /\ today' = today + 1
    /\ lastOp' = Op("AdvanceDay", "ok", 0, 0, 0, 0, NoAlloc, NoDB)
    /\ UNCHANGED <<lots, movements, sales, items, payments, customers, txns>>

\* Receive stock: a new Lot is saved.
LotCreate(product, quantity, expiration_date, sale_price) ==
    /\ Len(lots) < MaxLots
    /\ lots' = Append(lots, NewLot(product, quantity, expiration_date, sale_price))
    /\ lastOp' = Op("LotCreate", "ok", 0, 0, 0, 0, NoAlloc, NoDB)
    /\ UNCHANGED <<today, movements, sales, items, payments, customers, txns>>

\* A lot is taken out of sale (is_active is set to False).
LotDeactivate(id) ==
    /\ id \in DOMAIN lots
    /\ lots[id].is_active
    /\ lots' = [lots EXCEPT ![id].is_active = FALSE]
    /\ lastOp' = Op("LotDeactivate", "ok", 0, 0, 0, 0, NoAlloc, NoDB)
    /\ UNCHANGED <<today, movements, sales, items, payments, customers, txns>>

\* StockMovement.objects.create(lot=..., movement_type=..., quantity=...).
StockMovementCreate(id, movement_type, quantity) ==
    /\ id \in DOMAIN lots
    /\ LET r == StockMovementSave(DB, id, lots[id].remaining_quantity,
                                  movement_type, quantity, FALSE)
       IN  /\ Commit(r.db)
           /\ lastOp' = Op("StockMovementCreate", r.err, 0, 0, 0, 0, NoAlloc, NoDB)
    /\ UNCHANGED today

\* Sale.objects.create(customer=...): every other field at its default.
SaleCreate(customer) ==
    /\ Cardinality(DOMAIN sales) < MaxSales
    /\ LET sale == NewId(sales)
       IN  /\ Commit(SaleSaveNew(DB, sale, DefaultSale(customer)).db)
           /\ lastOp' = Op("SaleCreate", "ok", sale, 0, 0, 0, NoAlloc, NoDB)
    /\ UNCHANGED today

\* SaleItem.objects.create(sale=..., product=..., quantity=...).
SaleItemCreate(sale, product, quantity) ==
    /\ sale \in DOMAIN sales
    /\ <<sale, product>> \notin DOMAIN items
    /\ LET r == SaleItemSave(DB, today, sale, product, quantity, 0, TRUE, sales[sale])
       IN  /\ Commit(r.db)
           /\ lastOp' = Op("SaleItemCreate", r.err, sale, product, quantity, 0, r.alloc, DB)
    /\ UNCHANGED today

\* item.quantity = quantity; item.save() on an existing SaleItem.
SaleItemModify(sale, product, quantity) ==
    /\ <<sale, product>> \in DOMAIN items
    /\ LET r == SaleItemSave(DB, today, sale, product, quantity,
                             items[<<sale, product>>].unit_price, FALSE, sales[sale])
       IN  /\ Commit(r.db)
           /\ lastOp' = Op("SaleItemModify", r.err, sale, product, quantity,
                           items[<<sale, product>>].quantity, r.alloc, DB)
    /\ UNCHANGED today

\* item.delete() on an existing SaleItem.
SaleItemRemove(sale, product) ==
    /\ <<sale, product>> \in DOMAIN items
    /\ LET r == SaleItemDelete(DB, sale, product)
           undoes == /\ lastOp.op = "SaleItemCreate"
                     /\ lastOp.err = "ok"
                     /\ lastOp.sale = sale
                     /\ lastOp.product = product
       IN  /\ Commit(r.db)
           /\ lastOp' = [Op("SaleItemDelete", r.err, sale, product,
                            items[<<sale, product>>].quantity, 0, NoAlloc, DB)
                         EXCEPT !.undoes_create = undoes,
                                !.before = IF undoes THEN lastOp.before ELSE @,
                                !.lots_to_use = IF undoes THEN lastOp.lots_to_use ELSE @,
                                !.log_before = IF undoes THEN lastOp.log_before ELSE @]
    /\ UNCHANGED today

\* Payment.objects.create(sale=..., amount=...).
PaymentCreate(sale, amount) ==
    /\ sale \in DOMAIN sales
    /\ Cardinality(DOMAIN payments) < MaxPayments
    /\ Commit(PaymentSave(DB, NewId(payments), sale, amount, sales[sale]).db)
    /\ lastOp' = Op("PaymentCreate", "ok", sale, 0, 0, amount, NoAlloc, NoDB)
    /\ UNCHANGED today

\* payment.amount = amount; payment.save() on an existing Payment.
PaymentUpdate(id, amount) ==
    /\ id \in DOMAIN payments
    /\ amount # payments[id].amount
    /\ LET sale == payments[id].sale
       IN  /\ Commit(PaymentSave(DB, id, sale, amount, sales[sale]).db)
           /\ lastOp' = Op("PaymentUpdate", "ok", sale, 0, 0, amount, NoAlloc, NoDB)
    /\ UNCHANGED today

\* payment.delete() on an existing Payment.
PaymentRemove(id) ==
    /\ id \in DOMAIN payments
    /\ LET sale == payments[id].sale
       IN  /\ Commit(PaymentDelete(DB, id, sales[sale]).db)
           /\ lastOp' = Op("PaymentDelete", "ok", sale, 0, 0, 0, NoAlloc, NoDB)
    /\ UNCHANGED today

\* The requests the API actions are tried with.
Request(customer_id, tax_amount, discount, items_data, payments_data) ==
    [customer_id |-> customer_id, tax_amount |-> tax_amount,
     discount_type |-> discount[1], discount_value |-> discount[2],
     items |-> items_data, payments |-> payments_data]

Line(product_id, quantity) == [product_id |-> product_id, quantity |-> quantity]
Pay(id, amount) == [id |-> id, amount |-> amount]

Discounts ==
    {<<"amount", 0>>, <<"amount", GNF(1)>>, <<"amount", GNF(3)>>, <<"amount", -GNF(1)>>,
     <<"percentage", 50 * One>>, <<"percentage", 110 * One>>, <<"bogus", 0>>}

BaseRequest(customer_id, quantity) ==
    Request(customer_id, 0, <<"amount", 0>>, <<Line(1, quantity)>>, <<Pay(0, GNF(1))>>)

WellFormedRequests ==
    {BaseRequest(c, q) : c \in Customers, q \in Quantities}
    \cup {Request(1, 0, d, <<Line(1, 1)>>, <<Pay(0, GNF(1))>>) : d \in Discounts}
    \cup {Request(1, GNF(1), <<"amount", 0>>, <<Line(1, 1)>>, <<Pay(1, GNF(2))>>)}

MalformedRequests ==
    {BaseRequest(NoCustomer, 1)}
    \cup {Request(1, 0, <<"amount", 0>>, <<Line(1, q)>>, <<>>) : q \in Quantities}
    \cup {Request(1, 0, <<"amount", 0>>, l, <<Pay(0, GNF(1))>>) :
             l \in {<<>>, <<Line(UnknownProduct, 1)>>}}

Requests == WellFormedRequests \cup MalformedRequests

\* The requests create_sale is tried with: one line, one payment, and a
\* discount that is in bounds, too large or negative.
CreateRequests ==
    {Request(1, 0, d, <<Line(1, 1)>>, <<Pay(0, GNF(1))>>) :
        d \in {<<"amount", 0>>, <<"amount", GNF(3)>>, <<"amount", -GNF(1)>>,
               <<"percentage", 110 * One>>}}

\* What lastOp keeps of a request: its discount and its lines.
Asked(data) ==
    [discount_type |-> data.discount_type, discount_value |-> data.discount_value,
     items |-> data.items]

\* POST create_sale.
CreateSale(data) ==
    /\ LET r == create_sale(DB, today, data)
       IN  /\ Commit(r.db)
           /\ lastOp' = Op("create_sale", ToString(r.status), 0, 0, 0,
                           Asked(data), NoAlloc, NoDB)
    /\ UNCHANGED today

\* PUT update_sale.
UpdateSale(sale, data) ==
    /\ sale \in DOMAIN sales
    /\ LET r == update_sale(DB, today, sale, data)
       IN  /\ Commit(r.db)
           /\ lastOp' = Op("update_sale", ToString(r.status), sale, 0, 0,
                           Asked(data), NoAlloc, NoDB)
    /\ UNCHANGED today

(***************************************************************************)
(* The stock ledger: lots that stay sellable are received, stock movements *)
(* are entered, and one sale gets, changes and loses its lines.            *)
(***************************************************************************)
LedgerPrices == {GNF(1)}
LedgerQuantities == {1, MaxLotQty}
FefoQuantities == {1, 2}

EmptyDB ==
    [lots |-> <<>>, movements |-> <<>>, sales |-> <<>>, items |-> <<>>,
     payments |-> <<>>, customers |-> [c \in Customers |-> 0]]

InitLedger ==
    /\ today = 0
    /\ lots = <<>>
    /\ movements = <<>>
    /\ sales = SaleSaveNew(EmptyDB, 1, DefaultSale(1)).db.sales
    /\ items = <<>>
    /\ payments = <<>>
    /\ customers = [c \in Customers |-> 0]
    /\ txns = NoTxns
    /\ lastOp = Op("Init", "ok", 0, 0, 0, 0, NoAlloc, NoDB)

NextLedger ==
    \/ \E product \in Products, quantity \in LedgerQuantities, sale_price \in LedgerPrices :
          LotCreate(product, quantity, MaxDay + 1, sale_price)
    \/ \E id \in 1..MaxLots, movement_type \in MovementTypes, quantity \in Quantities :
          StockMovementCreate(id, movement_type, quantity)
    \/ \E product \in Products, quantity \in Quantities : SaleItemCreate(1, product, quantity)
    \/ \E product \in Products, quantity \in Quantities : SaleItemModify(1, product, quantity)
    \/ \E product \in Products : SaleItemRemove(1, product)

SpecLedger == InitLedger /\ [][NextLedger]_vars

(***************************************************************************)
(* The allocator at work: lots of any expiration date are received, age,   *)
(* are deactivated and drawn down by stock movements, and lines are sold.  *)
(***************************************************************************)
InitFefo ==
    /\ today = 0
    /\ lots = <<>>
    /\ movements = <<>>
    /\ sales = SaleSaveNew(SaleSaveNew(EmptyDB, 1, DefaultSale(1)).db, 2, DefaultSale(2)).db.sales
    /\ items = <<>>
    /\ payments = <<>>
    /\ customers = [c \in Customers |-> 0]
    /\ txns = NoTxns
    /\ lastOp = Op("Init", "ok", 0, 0, 0, 0, NoAlloc, NoDB)

NextFefo ==
    \/ AdvanceDay
    \/ \E product \in Products, quantity \in FefoQuantities,
          expiration_date \in ExpirationDates, sale_price \in LedgerPrices :
          LotCreate(product, quantity, expiration_date, sale_price)
    \/ \E id \in 1..MaxLots : LotDeactivate(id)
    \/ \E sale \in SaleIds, product \in Products, quantity \in Quantities :
          SaleItemCreate(sale, product, quantity)

SpecFefo == InitFefo /\ [][NextFefo]_vars

(***************************************************************************)
(* Settlement: sales of two customers over one stocked product; lines and  *)
(* payments are added, changed and removed at the model layer.             *)
(***************************************************************************)
SettleStock == 6

InitSettle ==
    /\ today = 0
    /\ lots = <<NewLot(1, SettleStock, MaxDay + 1, GNF(2))>>
    /\ movements = <<>>
    /\ sales = <<>>
    /\ items = <<>>
    /\ payments = <<>>
    /\ customers = [c \in Customers |-> 0]
    /\ txns = NoTxns
    /\ lastOp = Op("Init", "ok", 0, 0, 0, 0, NoAlloc, NoDB)

NextSettle ==
    \/ \E customer \in Customers : SaleCreate(customer)
    \/ \E sale \in SaleIds, quantity \in Quantities : SaleItemCreate(sale, 1, quantity)
    \/ \E sale \in SaleIds, quantity \in Quantities : SaleItemModify(sale, 1, quantity)
    \/ \E sale \in SaleIds : SaleItemRemove(sale, 1)
    \/ \E sale \in SaleIds, amount \in Amounts : PaymentCreate(sale, amount)
    \/ \E id \in PaymentIds, amount \in Amounts : PaymentUpdate(id, amount)
    \/ \E id \in PaymentIds : PaymentRemove(id)

SpecSettle == InitSettle /\ [][NextSettle]_vars

(***************************************************************************)
(* The API: one sale is recorded and updated through the views while its   *)
(* lines and payments are also changed at the model layer; two products    *)
(* are in stock.                                                           *)
(***************************************************************************)
InitApi ==
    /\ today = 0
    /\ lots = <<NewLot(1, SettleStock, MaxDay + 1, GNF(2)),
                NewLot(2, SettleStock, MaxDay + 1, GNF(1))>>
    /\ movements = <<>>
    /\ sales = SaleSaveNew(EmptyDB, 1, DefaultSale(1)).db.sales
    /\ items = <<>>
    /\ payments = <<>>
    /\ customers = [c \in Customers |-> 0]
    /\ txns = NoTxns
    /\ lastOp = Op("Init", "ok", 0, 0, 0, 0, NoAlloc, NoDB)

NextApi ==
    \/ \E data \in CreateRequests : CreateSale(data)
    \/ \E data \in Requests : UpdateSale(1, data)
    \/ \E product \in Products, quantity \in Quantities : SaleItemCreate(1, product, quantity)
    \/ \E product \in Products, quantity \in Quantities : SaleItemModify(1, product, quantity)
    \/ \E product \in Products : SaleItemRemove(1, product)
    \/ \E amount \in Amounts : PaymentCreate(1, amount)
    \/ \E id \in PaymentIds, amount \in Amounts : PaymentUpdate(id, amount)
    \/ \E id \in PaymentIds : PaymentRemove(id)

SpecApi == InitApi /\ [][NextApi]_vars

(***************************************************************************)
(* Properties.                                                             *)
(***************************************************************************)
ItemOps == {"SaleItemCreate", "SaleItemModify", "SaleItemDelete"}
PaymentOps == {"PaymentCreate", "PaymentUpdate", "PaymentDelete"}
ApiOps == {"create_sale", "update_sale"}

\* The quantity the SaleItemLot rows record against lot `id`.
RECURSIVE DrawnFrom(_, _)
DrawnFrom(rows, id) ==
    IF rows = <<>> THEN 0
    ELSE (IF Head(rows).lot = id THEN Head(rows).quantity ELSE 0) + DrawnFrom(Tail(rows), id)

\* Lot i of `rows` can be sold as `product` on `day`.
Sellable(rows, i, day, product) ==
    /\ rows[i].product = product
    /\ rows[i].is_active
    /\ rows[i].expiration_date > day
    /\ rows[i].remaining_quantity > 0

RECURSIVE SumOfRemaining(_, _)
SumOfRemaining(rows, ids) ==
    IF ids = {} THEN 0
    ELSE LET i == CHOOSE x \in ids : TRUE
         IN  rows[i].remaining_quantity + SumOfRemaining(rows, ids \ {i})

\* The total remaining_quantity of the product's available lots.
SellableStock(rows, day, product) ==
    SumOfRemaining(rows, {i \in DOMAIN rows : Sellable(rows, i, day, product)})

\* C1: after a SaleItem for quantity q is successfully created, the
\* quantities of its SaleItemLot rows sum to q and every lot's
\* remaining_quantity is its value before the creation minus the quantity
\* the rows record against it (nothing for a lot not drawn from).
LotConservation ==
    (lastOp.op = "SaleItemCreate" /\ lastOp.err = "ok") =>
        LET rows == items[<<lastOp.sale, lastOp.product>>].lot_items
        IN  /\ SumQuantity(rows) = lastOp.quantity
            /\ \A i \in DOMAIN lots :
                  lots[i].remaining_quantity = lastOp.before[i] - DrawnFrom(rows, i)

\* C2: in every reachable state every lot has
\* 0 <= remaining_quantity <= quantity.
LotBounds ==
    \A i \in DOMAIN lots :
        /\ 0 <= lots[i].remaining_quantity
        /\ lots[i].remaining_quantity <= lots[i].quantity

\* The movements logged since the line was created, those of lot `id`.
MovementsSince(id) ==
    SelectSeq(SubSeq(movements, lastOp.log_before + 1, Len(movements)),
              LAMBDA m : m.lot = id)

\* C3: a SaleItem created and then deleted leaves every lot with the
\* remaining_quantity it had before the sale, leaves none of the line's
\* SaleItemLot rows, and has added to the movement log, for each lot drawn
\* from, an `out` of the drawn quantity followed by an `in` of the same
\* quantity, and nothing for any other lot.
ReversalExactness ==
    (lastOp.op = "SaleItemDelete" /\ lastOp.err = "ok" /\ lastOp.undoes_create) =>
        /\ \A i \in DOMAIN lots : lots[i].remaining_quantity = lastOp.before[i]
        /\ <<lastOp.sale, lastOp.product>> \notin DOMAIN items
        /\ \A i \in DOMAIN lots :
              MovementsSince(i) =
                  IF DrawnFrom(lastOp.lots_to_use, i) = 0 THEN <<>>
                  ELSE <<[lot |-> i, movement_type |-> "out",
                          quantity |-> DrawnFrom(lastOp.lots_to_use, i)],
                         [lot |-> i, movement_type |-> "in",
                          quantity |-> DrawnFrom(lastOp.lots_to_use, i)]>>

ReversalExactnessWitness ==
    /\ lastOp.op = "SaleItemDelete"
    /\ lastOp.err = "ok"
    /\ lastOp.undoes_create
    /\ lastOp.lots_to_use # <<>>

\* The refusal of a sale line for lack of stock: the error reports the
\* quantity requested and `available`, and nothing stored has changed.
Refused(available) ==
    /\ lastOp'.err = "StockInsuffisant"
    /\ lastOp'.requested = lastOp'.quantity
    /\ lastOp'.available = available
    /\ UNCHANGED <<lots, movements, sales, items, payments, customers>>

\* The stock the allocator finds for the line being modified: the product's
\* available lots once the line's own lots are given back.
StockAfterReversal(key) ==
    SellableStock(remove_sale_item_lots(DB, key).db.lots, today, key[2])

\* C4: a sale line created for more than the total remaining_quantity of the
\* product's available lots, or changed to more than the allocator then
\* finds available, fails reporting the requested and the available
\* quantity, and no lot, movement, line, SaleItemLot or sale total changes.
InsufficientStockRejected ==
    [][/\ (/\ lastOp'.op = "SaleItemCreate"
           /\ lastOp'.quantity > SellableStock(lots, today, lastOp'.product))
          => Refused(SellableStock(lots, today, lastOp'.product))
       /\ (/\ lastOp'.op = "SaleItemModify"
           /\ lastOp'.quantity # lastOp'.arg
           /\ remove_sale_item_lots(DB, <<lastOp'.sale, lastOp'.product>>).err = "ok"
           /\ lastOp'.quantity > StockAfterReversal(<<lastOp'.sale, lastOp'.product>>))
          => Refused(StockAfterReversal(<<lastOp'.sale, lastOp'.product>>))
       /\ (lastOp'.op \in ItemOps /\ lastOp'.err = "StockInsuffisant")
          => /\ lastOp'.requested > lastOp'.available
             /\ UNCHANGED <<lots, movements, sales, items, payments, customers>>
      ]_vars

InsufficientStockWitness ==
    /\ lastOp.op \in {"SaleItemCreate", "SaleItemModify"}
    /\ lastOp.err = "StockInsuffisant"
    /\ lastOp.available > 0
    /\ movements # <<>>

\* Lot i comes before lot j in first-expired-first-out order.
FefoBefore(i, j) ==
    \/ lots[i].expiration_date < lots[j].expiration_date
    \/ /\ lots[i].expiration_date = lots[j].expiration_date
       /\ i < j

\* C5: the lots an allocation of q returns are in ascending expiration_date
\* (earlier creation first among equals), the quantities drawn sum to q, each
\* is between 1 and the lot's remaining_quantity, and every available lot
\* earlier in the order than a lot drawn from is drawn in full.
FefoAllocation ==
    [][(lastOp'.op = "SaleItemCreate" /\ lastOp'.lots_to_use # <<>>) =>
          LET drawn == lastOp'.lots_to_use
          IN  /\ SumQuantity(drawn) = lastOp'.quantity
              /\ \A n \in DOMAIN drawn :
                    /\ 1 <= drawn[n].quantity
                    /\ drawn[n].quantity <= lots[drawn[n].lot].remaining_quantity
              /\ \A n, m \in DOMAIN drawn : n < m => FefoBefore(drawn[n].lot, drawn[m].lot)
              /\ \A n \in DOMAIN drawn, c \in DOMAIN lots :
                    (Sellable(lots, c, today, lastOp'.product) /\ FefoBefore(c, drawn[n].lot))
                    => \E m \in DOMAIN drawn :
                          /\ m < n
                          /\ drawn[m].lot = c
                          /\ drawn[m].quantity = lots[c].remaining_quantity
      ]_vars

FefoAllocationWitness ==
    /\ lastOp.op = "SaleItemCreate"
    /\ Len(lastOp.lots_to_use) = 2
    /\ lastOp.lots_to_use[1].lot > lastOp.lots_to_use[2].lot
    /\ lastOp.lots_to_use[2].quantity < lots[lastOp.lots_to_use[2].lot].remaining_quantity

\* C6: the lots a sale line is allocated, and those its SaleItemLot rows
\* name, are lots of the line's product that are active, expire after the
\* current date and are not empty; no other lot changes.
NeverDrawsUnsellable ==
    [][lastOp'.op = "SaleItemCreate" =>
          /\ \A n \in DOMAIN lastOp'.lots_to_use :
                Sellable(lots, lastOp'.lots_to_use[n].lot, today, lastOp'.product)
          /\ lastOp'.err = "ok" =>
                \A i \in DOMAIN lots :
                    \/ Sellable(lots, i, today, lastOp'.product)
                    \/ /\ lots'[i] = lots[i]
                       /\ DrawnFrom(items'[<<lastOp'.sale, lastOp'.product>>].lot_items, i) = 0
      ]_vars

NeverDrawsUnsellableWitness ==
    /\ lastOp.op = "SaleItemCreate"
    /\ lastOp.err = "ok"
    /\ today > 0
    /\ \E i \in DOMAIN lots :
          /\ lots[i].product = lastOp.product
          /\ lots[i].is_active
          /\ lots[i].expiration_date = today
          /\ lots[i].remaining_quantity > 0

\* The settlement rule of a stored sale.
Settled(s) ==
    /\ s.total_amount = s.subtotal + s.tax_amount
    /\ s.balance_due = s.total_amount - s.amount_paid
    /\ s.status = IF s.amount_paid >= s.total_amount THEN "paid"
                  ELSE IF s.amount_paid > 0 THEN "partial"
                  ELSE "draft"

\* C7: after every completed SaleItem add, quantity modification or removal
\* and every Payment add, update or removal, the stored sale has
\* total_amount = subtotal + tax_amount, balance_due = total_amount -
\* amount_paid, and the status its amounts derive.
SettlementConsistency ==
    (lastOp.op \in ItemOps \cup PaymentOps /\ lastOp.err = "ok") => Settled(sales[lastOp.sale])

\* The effective discount of the stored sale s on a raw items subtotal.
EffectiveDiscount(s, raw) ==
    IF s.discount_type = "percentage" THEN PercentOf(raw, s.discount_value)
    ELSE s.discount_value

\* C8: after a completed SaleItem change on a sale that has a discount, the
\* stored subtotal is the sum of the lines' line_total minus the effective
\* discount.
SubtotalNetOfDiscount ==
    (/\ lastOp.op \in ItemOps
     /\ lastOp.err = "ok"
     /\ sales[lastOp.sale].discount_value > 0)
    => sales[lastOp.sale].subtotal =
          ItemsSubtotal(DB, lastOp.sale)
          - EffectiveDiscount(sales[lastOp.sale], ItemsSubtotal(DB, lastOp.sale))

\* The raw items subtotal of a request: each line at its product's price.
RECURSIVE RequestSubtotal(_)
RequestSubtotal(items_data) ==
    IF items_data = <<>> THEN 0
    ELSE ProductSalePrice(DB, Head(items_data).product_id) * Head(items_data).quantity
         + RequestSubtotal(Tail(items_data))

DiscountOutOfBounds(data) ==
    \/ data.discount_value < 0
    \/ data.discount_type = "percentage" /\ data.discount_value > 100 * One
    \/ data.discount_type = "amount" /\ data.discount_value > RequestSubtotal(data.items)

\* C9: a request whose discount_value is negative, above 100 for a
\* percentage, or above the raw items subtotal for an amount, is refused:
\* create_sale answers 400, update_sale does not answer 200 and does not
\* store the discount; no stored sale has a negative subtotal; an update
\* accepted with discount_value 0 leaves the subtotal equal to the raw items
\* subtotal.
DiscountBounds ==
    /\ (lastOp.op = "create_sale" /\ DiscountOutOfBounds(lastOp.arg)) => lastOp.err = "400"
    /\ (lastOp.op = "update_sale" /\ DiscountOutOfBounds(lastOp.arg)) =>
          /\ lastOp.err # "200"
          /\ <<sales[lastOp.sale].discount_type, sales[lastOp.sale].discount_value>>
             # <<lastOp.arg.discount_type, lastOp.arg.discount_value>>
    /\ \A s \in DOMAIN sales : sales[s].subtotal >= 0
    /\ (lastOp.op = "update_sale" /\ lastOp.err = "200" /\ lastOp.arg.discount_value = 0) =>
          sales[lastOp.sale].subtotal = ItemsSubtotal(DB, lastOp.sale)

DiscountBoundsWitness ==
    /\ lastOp.op = "update_sale"
    /\ lastOp.err = "400"
    /\ lastOp.arg.discount_type = "amount"
    /\ lastOp.arg.discount_value > RequestSubtotal(lastOp.arg.items)
    /\ lastOp.arg.discount_value <= GNF(2) * MaxQty

RECURSIVE SumOfBalances(_)
SumOfBalances(ids) ==
    IF ids = {} THEN 0
    ELSE LET s == CHOOSE x \in ids : TRUE
         IN  sales[s].balance_due + SumOfBalances(ids \ {s})

\* C10: after every completed SaleItem or Payment operation on a sale, the
\* credit_balance of the sale's customer is the sum of balance_due over the
\* customer's sales that have balance_due > 0.
CreditAggregation ==
    (lastOp.op \in ItemOps \cup PaymentOps /\ lastOp.err = "ok") =>
        LET customer == sales[lastOp.sale].customer
        IN  customers[customer] =
                SumOfBalances({s \in DOMAIN sales : /\ sales[s].customer = customer
                                                    /\ sales[s].balance_due > 0})

CreditAggregationWitness ==
    /\ lastOp.op \in PaymentOps
    /\ lastOp.err = "ok"
    /\ \E s, t \in DOMAIN sales :
          /\ sales[s].customer = sales[t].customer
          /\ sales[s].balance_due > 0
          /\ sales[t].balance_due < 0
          /\ customers[sales[s].customer] = sales[s].balance_due

(***************************************************************************)
(* Customer credit: sales are recorded, sold on, paid and moved from one   *)
(* customer to another (or to none).                                       *)
(***************************************************************************)
\* sale.customer = customer; sale.save() on an existing Sale.
SaleSetCustomer(sale, customer) ==
    /\ sale \in DOMAIN sales
    /\ customer # sales[sale].customer
    /\ Commit(SaleSave(DB, sale, [sales[sale] EXCEPT !.customer = customer], SaleFields).db)
    /\ lastOp' = Op("SaleSetCustomer", "ok", sale, 0, 0, sales[sale].customer, NoAlloc, NoDB)
    /\ UNCHANGED today

NextCredit ==
    \/ \E customer \in Customers : SaleCreate(customer)
    \/ \E sale \in SaleIds : SaleItemCreate(sale, 1, 1)
    \/ \E sale \in SaleIds, amount \in Amounts : PaymentCreate(sale, amount)
    \/ \E sale \in SaleIds, customer \in Customers \cup {NoCustomer} :
          SaleSetCustomer(sale, customer)

SpecCredit == InitSettle /\ [][NextCredit]_vars

\* The credit the customer's stored sales add up to.
CreditOwed(customer) ==
    SumOfBalances({s \in DOMAIN sales : /\ sales[s].customer = customer
                                        /\ sales[s].balance_due > 0})

\* C11: after a sale's customer is changed and the sale saved, the
\* credit_balance of the previous customer is the sum of the positive
\* balance_due of the sales that customer still has, and the credit_balance
\* of the new customer (if any) is that sum over their sales, this sale
\* included.
CustomerChangeRecomputesBoth ==
    lastOp.op = "SaleSetCustomer" =>
        /\ sales[lastOp.sale].customer # lastOp.arg
        /\ lastOp.arg # NoCustomer => customers[lastOp.arg] = CreditOwed(lastOp.arg)
        /\ sales[lastOp.sale].customer # NoCustomer =>
              customers[sales[lastOp.sale].customer] = CreditOwed(sales[lastOp.sale].customer)

CustomerChangeRecomputesBothWitness ==
    /\ lastOp.op = "SaleSetCustomer"
    /\ lastOp.arg # NoCustomer
    /\ sales[lastOp.sale].customer # NoCustomer
    /\ sales[lastOp.sale].balance_due > 0
    /\ customers[sales[lastOp.sale].customer] > sales[lastOp.sale].balance_due
    /\ customers[lastOp.arg] = 0

(***************************************************************************)
(* Pricing: one product received in two lots at two prices, the lot        *)
(* received last being the dearer; lines are sold, changed and removed.    *)
(***************************************************************************)
InitPrice ==
    /\ today = 0
    /\ lots = <<NewLot(1, MaxLotQty, MaxDay + 1, GNF(1)),
                NewLot(1, MaxLotQty, MaxDay + 1, GNF(2))>>
    /\ movements = <<>>
    /\ sales = SaleSaveNew(SaleSaveNew(EmptyDB, 1, DefaultSale(1)).db, 2, DefaultSale(2)).db.sales
    /\ items = <<>>
    /\ payments = <<>>
    /\ customers = [c \in Customers |-> 0]
    /\ txns = NoTxns
    /\ lastOp = Op("Init", "ok", 0, 0, 0, 0, NoAlloc, NoDB)

NextPrice ==
    \/ \E id \in 1..MaxLots : LotDeactivate(id)
    \/ \E sale \in SaleIds, quantity \in Quantities : SaleItemCreate(sale, 1, quantity)
    \/ \E sale \in SaleIds, quantity \in Quantities : SaleItemModify(sale, 1, quantity)
    \/ \E sale \in SaleIds : SaleItemRemove(sale, 1)

SpecPrice == InitPrice /\ [][NextPrice]_vars

\* The sum over SaleItemLot rows of unit_price * quantity.
RECURSIVE SumLotPrices(_)
SumLotPrices(rows) ==
    IF rows = <<>> THEN 0
    ELSE Head(rows).unit_price * Head(rows).quantity + SumLotPrices(Tail(rows))

\* C12: every SaleItem has line_total equal to the sum over its SaleItemLot
\* rows of unit_price * quantity, each row priced at the sale_price of its
\* lot, and unit_price equal to that sum divided by the quantity, rounded to
\* two decimals.
WeightedPrice ==
    \A k \in DOMAIN items :
        /\ \A n \in DOMAIN items[k].lot_items :
              items[k].lot_items[n].unit_price = lots[items[k].lot_items[n].lot].sale_price
        /\ items[k].line_total = SumLotPrices(items[k].lot_items)
        /\ items[k].unit_price =
              Quantize(DecDiv(SumLotPrices(items[k].lot_items), items[k].quantity))

\* C13: after every Payment create, update or delete, the stored amount_paid
\* of the payment's sale is the sum of the amounts of the payments the sale
\* has (0 when it has none).
AmountPaidIsPaymentsTotal ==
    lastOp.op \in PaymentOps =>
        sales[lastOp.sale].amount_paid = PaymentsTotal(DB, lastOp.sale)

AmountPaidIsPaymentsTotalWitness ==
    /\ lastOp.op = "PaymentDelete"
    /\ sales[lastOp.sale].amount_paid > 0
    /\ \E p \in DOMAIN payments : payments[p].sale = lastOp.sale

(***************************************************************************)
(* Lot.adjust_quantity on its own: lots are received and adjusted by any   *)
(* signed quantity.                                                        *)
(***************************************************************************)
Deltas == (0 - MaxQty)..MaxQty

\* lot.adjust_quantity(quantity_delta) on a lot read from the database.
LotAdjust(id, quantity_delta) ==
    /\ id \in DOMAIN lots
    /\ LET r == adjust_quantity(DB, id, lots[id].remaining_quantity, quantity_delta)
       IN  /\ Commit(r.db)
           /\ lastOp' = Op("LotAdjust", r.err, 0, 0, 0, <<id, quantity_delta>>, NoAlloc, DB)
    /\ UNCHANGED today

NextAdjust ==
    \/ \E product \in Products, quantity \in LedgerQuantities, sale_price \in LedgerPrices :
          LotCreate(product, quantity, MaxDay + 1, sale_price)
    \/ \E id \in 1..MaxLots, quantity_delta \in Deltas : LotAdjust(id, quantity_delta)

SpecAdjust == InitLedger /\ [][NextAdjust]_vars

\* C14: lot.adjust_quantity(delta) stores remaining_quantity + delta when
\* that lies between 0 and the lot's quantity; otherwise it raises and leaves
\* remaining_quantity as it was; no other lot changes and no StockMovement is
\* written in either case.
AdjustQuantityContract ==
    [][lastOp'.op = "LotAdjust" =>
          LET id == lastOp'.arg[1]
              new_quantity == lots[id].remaining_quantity + lastOp'.arg[2]
          IN  /\ IF 0 <= new_quantity /\ new_quantity <= lots[id].quantity
                 THEN /\ lastOp'.err = "ok"
                      /\ lots' = [lots EXCEPT ![id].remaining_quantity = new_quantity]
                 ELSE /\ lastOp'.err # "ok"
                      /\ lots' = lots
              /\ movements' = movements
      ]_vars

AdjustQuantityContractWitness ==
    /\ lastOp.op = "LotAdjust"
    /\ lastOp.err = "DepasseQuantiteInitiale"
    /\ lots[lastOp.arg[1]].remaining_quantity < lots[lastOp.arg[1]].quantity
    /\ lots[lastOp.arg[1]].remaining_quantity > 0

\* C15: a SaleItem created for no more than the product's sellable stock is
\* created, a quantity raised to no more than the allocator finds once the
\* line's own lots are given back is accepted, and a deletion or a lowered
\* quantity always completes.
SaleFlowsNeverRefused ==
    [][/\ (/\ lastOp'.op = "SaleItemCreate"
           /\ lastOp'.quantity <= SellableStock(lots, today, lastOp'.product))
          => lastOp'.err = "ok"
       /\ (/\ lastOp'.op = "SaleItemModify"
           /\ lastOp'.quantity > lastOp'.arg
           /\ remove_sale_item_lots(DB, <<lastOp'.sale, lastOp'.product>>).err = "ok"
           /\ lastOp'.quantity <= StockAfterReversal(<<lastOp'.sale, lastOp'.product>>))
          => lastOp'.err = "ok"
       /\ (lastOp'.op = "SaleItemModify" /\ lastOp'.quantity < lastOp'.arg)
          => lastOp'.err = "ok"
       /\ lastOp'.op = "SaleItemDelete" => lastOp'.err = "ok"
      ]_vars

\* The database before the line `key` was sold, `before` being the lots'
\* remaining quantities then.
BeforeSale(key, before) ==
    [DB EXCEPT !.lots = [i \in DOMAIN lots |->
                            [lots[i] EXCEPT !.remaining_quantity = before[i]]],
               !.items = Without(@, key)]

\* The line created directly with `quantity` from the stock before the sale.
CreatedDirectly(key, before, quantity) ==
    SaleItemSave(BeforeSale(key, before), today, key[1], key[2], quantity, 0, TRUE,
                 sales[key[1]])

TxnRead(p, product, quantity) ==
    /\ txns[p].pc = "idle"
    /\ p \in DOMAIN sales
    /\ <<p, product>> \notin DOMAIN items
    /\ LET alloc == get_lots_for_sale(DB, today, product, quantity)
       IN  /\ txns' = [txns EXCEPT ![p] =
                          IF alloc.err # "ok" THEN [pc |-> "refused"]
                          ELSE [pc |-> "allocated", sale |-> p, product |-> product,
                                quantity |-> quantity,
                                unit_price |-> ProductSalePrice(DB, product),
                                alloc |-> alloc]]
           /\ lastOp' = Op("TxnRead", alloc.err, p, product, quantity, 0, alloc, DB)
    /\ UNCHANGED <<today, lots, movements, sales, items, payments, customers>>

\* SaleItem.save from self._create_sale_item_lots(lots_to_use) to the commit:
\* the lots are written from the instances read by TxnRead.
TxnWrite(p) ==
    /\ txns[p].pc = "allocated"
    /\ LET t == txns[p]
           key == <<t.sale, t.product>>
           row == [quantity |-> t.quantity, unit_price |-> Quantize(t.unit_price),
                   line_total |-> Quantize(t.unit_price * t.quantity), lot_items |-> <<>>]
           r == Atomic(DB, SaleItemSaveLots(Ok([DB EXCEPT !.items = @ @@ (key :> row)]),
                                            t.alloc, key, sales[t.sale]))
       IN  /\ CommitRows(r.db)
           /\ txns' = [txns EXCEPT ![p].pc = IF r.err = "ok" THEN "committed" ELSE "aborted"]
           /\ lastOp' = Op("TxnWrite", r.err, t.sale, t.product, t.quantity, 0, t.alloc, DB)
    /\ UNCHANGED today

InitRace ==
    /\ today = 0
    /\ \E quantity \in 1..MaxLotQty : lots = <<NewLot(1, quantity, MaxDay + 1, GNF(1))>>
    /\ movements = <<>>
    /\ sales = SaleSaveNew(SaleSaveNew(EmptyDB, 1, DefaultSale(1)).db, 2, DefaultSale(2)).db.sales
    /\ items = <<>>
    /\ payments = <<>>
    /\ customers = [c \in Customers |-> 0]
    /\ txns = NoTxns
    /\ lastOp = Op("Init", "ok", 0, 0, 0, 0, NoAlloc, NoDB)

NextRace ==
    \/ \E p \in Procs, quantity \in Quantities : TxnRead(p, 1, quantity)
    \/ \E p \in Procs : TxnWrite(p)

SpecRace == InitRace /\ [][NextRace]_vars

\* The stock as received: every lot at its initial quantity, nothing sold.
AsReceived ==
    [DB EXCEPT !.lots = [i \in DOMAIN lots |->
                            [lots[i] EXCEPT !.remaining_quantity = lots[i].quantity]],
               !.movements = <<>>,
               !.items = <<>>]

\* The line of process p created by a request that runs alone on `db`.
Alone(db, p) ==
    SaleItemSave(db, today, txns[p].sale, txns[p].product, txns[p].quantity, 0, TRUE,
                 db.sales[txns[p].sale])

\* Both requests run one after the other from the stock as received, p first,
\* complete and leave the lots as they are now.
SerialOutcome(p, q) ==
    /\ Alone(AsReceived, p).err = "ok"
    /\ Alone(Alone(AsReceived, p).db, q).err = "ok"
    /\ Alone(Alone(AsReceived, p).db, q).db.lots = lots

\* C17: when two requests that create sale lines from the same lot have both
\* committed, the lots are as if the requests had run one after the other
\* (no update of remaining_quantity is lost), and the quantities their
\* SaleItemLot rows record against a lot do not exceed what the lot held.
ConcurrentSalesSerialized ==
    (\A p \in Procs : txns[p].pc = "committed") =>
        /\ SerialOutcome(1, 2) \/ SerialOutcome(2, 1)
        /\ \A i \in DOMAIN lots :
              DrawnFrom(items[<<1, 1>>].lot_items, i) + DrawnFrom(items[<<2, 1>>].lot_items, i)
                  <= lots[i].quantity

(***************************************************************************)
(* Payments written outside a transaction.  Payment.save and               *)
(* Payment.delete open no transaction of their own: called with none open  *)
(* (the connection in autocommit), super().save() and super().delete()     *)
(* commit the row, and refresh_payment_summary() is a second statement     *)
(* that follows.  Another request, or the end of the process, may come     *)
(* between the two.  SaleItem.save is @transaction.atomic and stays one     *)
(* step.                                                                   *)
(***************************************************************************)
\* Payment.save up to the return of super().save(): process p stores a new
\* Payment of `amount` for `sale`; self.sale is the instance read here.
PaymentRowSave(p, sale, amount) ==
    /\ txns[p].pc = "idle"
    /\ sale \in DOMAIN sales
    /\ Cardinality(DOMAIN payments) < MaxPayments
    /\ payments' = payments @@ (NewId(payments) :> [sale |-> sale, amount |-> Quantize(amount)])
    /\ txns' = [txns EXCEPT ![p] = [pc |-> "row_written", sale |-> sale, inst |-> sales[sale]]]
    /\ lastOp' = Op("PaymentRowSave", "ok", sale, 0, 0, amount, NoAlloc, NoDB)
    /\ UNCHANGED <<today, lots, movements, sales, items, customers>>

\* Payment.delete up to the return of super().delete(): sale = self.sale is
\* read, then the row is removed.
PaymentRowDelete(p, id) ==
    /\ txns[p].pc = "idle"
    /\ id \in DOMAIN payments
    /\ payments' = Without(payments, id)
    /\ txns' = [txns EXCEPT ![p] = [pc |-> "row_written", sale |-> payments[id].sale,
                                    inst |-> sales[payments[id].sale]]]
    /\ lastOp' = Op("PaymentRowDelete", "ok", payments[id].sale, 0, 0, 0, NoAlloc, NoDB)
    /\ UNCHANGED <<today, lots, movements, sales, items, customers>>

\* The last statement of Payment.save and of Payment.delete:
\* sale.refresh_payment_summary() on the instance read before.
PaymentRefresh(p) ==
    /\ txns[p].pc = "row_written"
    /\ CommitRows(refresh_payment_summary(DB, txns[p].sale, txns[p].inst).db)
    /\ txns' = [txns EXCEPT ![p] = Idle]
    /\ lastOp' = Op("PaymentRefresh", "ok", txns[p].sale, 0, 0, 0, NoAlloc, NoDB)
    /\ UNCHANGED today

\* The process ends between the two statements: the refresh never runs.
PaymentInterrupted(p) ==
    /\ txns[p].pc = "row_written"
    /\ txns' = [txns EXCEPT ![p] = Idle]
    /\ lastOp' = Op("PaymentInterrupted", "ok", txns[p].sale, 0, 0, 0, NoAlloc, NoDB)
    /\ UNCHANGED <<today, lots, movements, sales, items, payments, customers>>

\* Each process writes the payments of the sale of its own number.
NextAutocommit ==
    \/ SaleCreate(1)
    \/ \E sale \in SaleIds : SaleItemCreate(sale, 1, 1)
    \/ \E p \in Procs, amount \in Amounts : PaymentRowSave(p, p, amount)
    \/ \E p \in Procs, id \in PaymentIds : PaymentRowDelete(p, id)
    \/ \E p \in Procs : PaymentRefresh(p)
    \/ \E p \in Procs : PaymentInterrupted(p)

SpecAutocommit == InitSettle /\ [][NextAutocommit]_vars

\* C18: in every committed state each sale's stored amount_paid is the sum of
\* its stored payments, and its total_amount, balance_due and status are
\* those its stored amounts derive: no state a reader can see, and no state
\* left by a process that ends early, has a Payment or SaleItem written and
\* the sale not yet recomputed.
SettlementInSameTransaction ==
    \A sale \in DOMAIN sales :
        /\ sales[sale].amount_paid = PaymentsTotal(DB, sale)
        /\ Settled(sales[sale])

\* update_sale answers 400 from the checks it makes before its transaction:
\* a field of the request or one of its lines was refused.
FailsValidation(sale, data) ==
    LET checked == validate_items(DB, today, sale, data.items)
    IN  /\ checked.err = "ok"
        /\ request_errors(DB, data) \/ checked.errors

\* C19: an update_sale request that fails the checks made before the
\* transaction writes nothing: the lots, the stock movements, the sale, its
\* lines and payments and the customers are as before the request.
ValidationWritesNothing ==
    [][\A data \in Requests :
          (UpdateSale(1, data) /\ FailsValidation(1, data))
              => UNCHANGED <<lots, movements, sales, items, payments, customers>>]_vars

\* The rows as update_sale finds them when it enters transaction.atomic().
AtTransactionStart(sale, data) == validate_items(DB, today, sale, data.items).db

\* The request passes the checks made before the transaction.
EntersTransaction(sale, data) ==
    LET checked == validate_items(DB, today, sale, data.items)
    IN  /\ checked.err = "ok"
        /\ ~request_errors(DB, data)
        /\ ~checked.errors

\* C20: an update_sale request that enters its transaction and is not
\* answered 200 (a discount out of bounds, an error while the lines are
\* created again) leaves the sale's lines with their SaleItemLot rows, every
\* lot's remaining_quantity and the stock movement log as they were when the
\* transaction began.
RejectedUpdateRollsBack ==
    [][\A data \in Requests :
          (UpdateSale(1, data) /\ EntersTransaction(1, data) /\ lastOp'.err # "200")
              => /\ items' = AtTransactionStart(1, data).items
                 /\ lots' = AtTransactionStart(1, data).lots
                 /\ movements' = AtTransactionStart(1, data).movements]_vars

\* The quantity the lines of `sale` record against lot `id`.
RECURSIVE DrawnBySale(_, _, _)
DrawnBySale(keys, rows, id) ==
    IF keys = {} THEN 0
    ELSE LET k == CHOOSE x \in keys : TRUE
         IN  DrawnFrom(rows[k].lot_items, id) + DrawnBySale(keys \ {k}, rows, id)

\* C21: after an update_sale request answered 200 the sale has exactly one
\* line per requested line, and every lot's remaining_quantity is what it
\* would be without the sale (the quantity received: no other sale and no
\* other movement touches the stock) minus the quantity the sale's lines
\* record against it.
UpdateReplacesLines ==
    (lastOp.op = "update_sale" /\ lastOp.err = "200") =>
        /\ DOMAIN items = {<<lastOp.sale, lastOp.arg.items[n].product_id>> :
                              n \in DOMAIN lastOp.arg.items}
        /\ \A k \in DOMAIN items : items[k].quantity =
              SumQuantity(SelectSeq(lastOp.arg.items,
                                    LAMBDA l : l.product_id = k[2]))
        /\ \A i \in DOMAIN lots :
              lots[i].remaining_quantity =
                  lots[i].quantity - DrawnBySale(DOMAIN items, items, i)

(***************************************************************************)
(* sales/api_views.py: validate_sale_item, the allocation dry run.  The    *)
(* answer is [status, valid, available, requested, lots]; lots is what the *)
(* client receives of the (lot, quantity) breakdown.                       *)
(***************************************************************************)
NoAnswer(status) ==
    [status |-> status, valid |-> FALSE, available |-> 0, requested |-> 0, lots |-> <<>>]

\* POST validate_sale_item.  With enough stock the view hands
\* JsonResponse a 'lots' list whose entries hold Lot instances; the encoder
\* raises TypeError on the first of them and the request is answered 500.
validate_sale_item(db, day, product_id, quantity) ==
    IF product_id = 0 \/ quantity <= 0 THEN NoAnswer(400)
    ELSE IF product_id \notin Products THEN NoAnswer(404)
    ELSE
    LET lots_to_use == DrawFrom(available_lots(db, day, product_id), quantity)
        remaining_quantity == quantity - SumQuantity(lots_to_use)
        total_available == quantity - remaining_quantity
    IN  IF remaining_quantity > 0
        THEN [status |-> 200, valid |-> FALSE, available |-> total_available,
              requested |-> quantity, lots |-> <<>>]
        ELSE IF lots_to_use # <<>> THEN NoAnswer(500)
        ELSE [status |-> 200, valid |-> TRUE, available |-> 0, requested |-> 0,
              lots |-> lots_to_use]

ValidateSaleItem(product_id, quantity) ==
    /\ lastOp' = Op("validate_sale_item",
                    ToString(validate_sale_item(DB, today, product_id, quantity).status),
                    0, product_id, quantity,
                    validate_sale_item(DB, today, product_id, quantity), NoAlloc, DB)
    /\ UNCHANGED <<today, lots, movements, sales, items, payments, customers, txns>>

NextDryRun ==
    \/ AdvanceDay
    \/ \E product \in Products, quantity \in FefoQuantities,
          expiration_date \in ExpirationDates, sale_price \in LedgerPrices :
          LotCreate(product, quantity, expiration_date, sale_price)
    \/ \E id \in 1..MaxLots : LotDeactivate(id)
    \/ \E sale \in SaleIds, product \in Products, quantity \in Quantities :
          SaleItemCreate(sale, product, quantity)
    \/ \E product_id \in Products \cup {UnknownProduct}, quantity \in 0..MaxQty :
          ValidateSaleItem(product_id, quantity)

SpecDryRun == InitFefo /\ [][NextDryRun]_vars

\* C22: a dry run for a product and a positive quantity changes no row, and
\* on the stock it was asked about it agrees with the allocator of a sale
\* line: it reports insufficient stock, with the same available and requested
\* figures, exactly when the creation would be refused for lack of stock, and
\* otherwise it returns the (lot, quantity) pairs the creation would consume,
\* in the same order.
DryRunAgreesWithCreation ==
    (/\ lastOp.op = "validate_sale_item"
     /\ lastOp.product \in Products
     /\ lastOp.quantity > 0) =>
        LET alloc == get_lots_for_sale(DB, today, lastOp.product, lastOp.quantity)
            answer == lastOp.arg
        IN  /\ lastOp.before = RemainingQuantities(DB)
            /\ lastOp.log_before = Len(movements)
            /\ IF alloc.err # "ok"
               THEN /\ ~answer.valid
                    /\ answer.status = 200
                    /\ answer.available = alloc.available
                    /\ answer.requested = alloc.requested
               ELSE /\ answer.valid
                    /\ [n \in DOMAIN answer.lots |->
                           <<answer.lots[n].lot, answer.lots[n].quantity>>]
                       = [n \in DOMAIN alloc.lots_to_use |->
                           <<alloc.lots_to_use[n].lot, alloc.lots_to_use[n].quantity>>]

(***************************************************************************)
(* catalog: Product.total_stock and Product.total_expired_stock            *)
(***************************************************************************)
\* A variant of total_stock that counts the active lots of any date.
total_stock_of_any_date(db, day, product) ==
    SumOfRemaining(db.lots, {i \in DOMAIN db.lots :
                                /\ db.lots[i].product = product
                                /\ db.lots[i].is_active})

\* Product.total_stock: Sum('remaining_quantity') over the product's active
\* lots with expiration_date > today, 0 for none.
total_stock(db, day, product) ==
    SumOfRemaining(db.lots, {i \in DOMAIN db.lots :
                                /\ db.lots[i].product = product
                                /\ db.lots[i].is_active
                                /\ db.lots[i].expiration_date > day})

\* Product.total_expired_stock: Sum('remaining_quantity') over the product's
\* active lots with expiration_date <= today that still hold stock.
total_expired_stock(db, day, product) ==
    SumOfRemaining(db.lots, {i \in DOMAIN db.lots :
                                /\ db.lots[i].product = product
                                /\ db.lots[i].is_active
                                /\ db.lots[i].expiration_date <= day
                                /\ db.lots[i].remaining_quantity > 0})

\* C23: for every product, total_stock is the sum of remaining_quantity over
\* the lots the allocator accepts as candidates, the allocator accepts a
\* quantity q exactly when q <= total_stock, total_expired_stock is the sum
\* over the active lots with expiration_date <= today, and the two figures
\* together count every active lot's remaining_quantity once.
StockFigures ==
    \A product \in Products :
        /\ total_stock(DB, today, product)
             = SumOfRemaining(lots, {i \in DOMAIN lots :
                                        IsCandidate(lots[i], today, product)})
        /\ \A q \in 1..(MaxLots * MaxLotQty + 1) :
              get_lots_for_sale(DB, today, product, q).err = "ok"
                  <=> q <= total_stock(DB, today, product)
        /\ total_expired_stock(DB, today, product)
             = SumOfRemaining(lots, {i \in DOMAIN lots :
                                        /\ lots[i].product = product
                                        /\ lots[i].is_active
                                        /\ lots[i].expiration_date <= today})
        /\ total_stock(DB, today, product) + total_expired_stock(DB, today, product)
             = SumOfRemaining(lots, {i \in DOMAIN lots :
                                        lots[i].product = product /\ lots[i].is_active})

\* A product has a sellable lot, an expired lot that still holds stock and
\* a line was just refused for asking more than its total_stock.
StockFiguresWitness ==
    /\ lastOp.op = "SaleItemCreate"
    /\ lastOp.err = "StockInsuffisant"
    /\ lastOp.quantity > total_stock(DB, today, lastOp.product)
    /\ total_stock(DB, today, lastOp.product) > 0
    /\ total_expired_stock(DB, today, lastOp.product) > 0

\* What the movements `ms` add to lot `id`: its `in` quantities minus its
\* `out` quantities.
RECURSIVE NetMovement(_, _)
NetMovement(ms, id) ==
    IF ms = <<>> THEN 0
    ELSE (IF Head(ms).lot # id THEN 0
          ELSE IF Head(ms).movement_type = "in" THEN Head(ms).quantity
          ELSE IF Head(ms).movement_type = "out" THEN 0 - Head(ms).quantity
          ELSE 0)
         + NetMovement(Tail(ms), id)

\* C24: every step that creates, modifies or deletes a sale line, or that
\* enters an `in` or `out` stock movement, changes each lot's
\* remaining_quantity by exactly what the StockMovement rows it appends say:
\* the sum of their `in` quantities minus the sum of their `out` quantities.
LedgerMatchesMovements ==
    [][LET added == SubSeq(movements', Len(movements) + 1, Len(movements'))
       IN  (/\ lastOp'.op \in ItemOps \cup {"StockMovementCreate"}
            /\ \A n \in DOMAIN added : added[n].movement_type \in {"in", "out"})
               => \A i \in DOMAIN lots :
                     lots'[i].remaining_quantity - lots[i].remaining_quantity
                         = NetMovement(added, i)]_vars

\* The columns of a Sale that a Payment leaves alone.
TotalsFields == {"subtotal", "tax_amount", "discount_type", "discount_value",
                 "discount_amount", "total_amount"}

\* C25: creating, updating or deleting a Payment leaves the stored subtotal,
\* tax_amount, discount and total_amount of its sale unchanged, and the
\* balance_due it stores is that stored total_amount minus the new
\* amount_paid.
PaymentChangesSettlementOnly ==
    [][lastOp'.op \in PaymentOps =>
          /\ \A f \in TotalsFields : sales'[lastOp'.sale][f] = sales[lastOp'.sale][f]
          /\ sales'[lastOp'.sale].balance_due
               = sales'[lastOp'.sale].total_amount - sales'[lastOp'.sale].amount_paid]_vars

(***************************************************************************)
(* Stock movements saved in every way StockMovement.save allows: new or    *)
(* already persisted, with or without _skip_lot_update.                    *)
(***************************************************************************)
\* movement.save(): n = 0 is a new movement on lot `id` (self.pk is None);
\* otherwise the persisted movement n is saved again as it is, and only its
\* own row is written.
StockMovementSaveAs(n, id, movement_type, quantity, skip_lot_update) ==
    /\ id \in DOMAIN lots
    /\ \/ /\ n = 0
          /\ LET r == StockMovementSave(DB, id, lots[id].remaining_quantity,
                                        movement_type, quantity, skip_lot_update)
             IN  /\ Commit(r.db)
                 /\ lastOp' = Op("StockMovementSave", r.err, 0, 0, quantity,
                                 [n |-> n, lot |-> id, movement_type |-> movement_type,
                                  skip_lot_update |-> skip_lot_update], NoAlloc, DB)
       \/ /\ n \in DOMAIN movements
          /\ movements[n] = [lot |-> id, movement_type |-> movement_type,
                             quantity |-> quantity]
          /\ movements' = [movements EXCEPT ![n] = @]
          /\ lastOp' = Op("StockMovementSave", "ok", 0, 0, quantity,
                          [n |-> n, lot |-> id, movement_type |-> movement_type,
                           skip_lot_update |-> skip_lot_update], NoAlloc, DB)
          /\ UNCHANGED <<lots, sales, items, payments, customers, txns>>
    /\ UNCHANGED today

NextMovement ==
    \/ \E quantity \in LedgerQuantities, sale_price \in LedgerPrices :
          LotCreate(1, quantity, MaxDay + 1, sale_price)
    \/ \E n \in 0..MaxMovements, id \in 1..MaxLots, movement_type \in MovementTypes,
          quantity \in Quantities, skip_lot_update \in BOOLEAN :
          StockMovementSaveAs(n, id, movement_type, quantity, skip_lot_update)

SpecMovement == InitLedger /\ [][NextMovement]_vars

\* C26: a new `in` / `out` movement of quantity n saved without the skip flag
\* changes its lot's remaining_quantity by +n / -n and appends its row, or,
\* when the lot's bounds refuse it, changes no lot and stores no row; saving
\* a persisted movement again, or saving with the skip flag set, leaves every
\* lot unchanged.
MovementAppliedOnce ==
    [][lastOp'.op = "StockMovementSave" =>
          LET a == lastOp'.arg
              delta == IF a.movement_type = "in" THEN lastOp'.quantity
                       ELSE 0 - lastOp'.quantity
          IN  IF a.n # 0 \/ a.skip_lot_update THEN lots' = lots
              ELSE IF lastOp'.err # "ok" THEN lots' = lots /\ movements' = movements
              ELSE /\ movements' = Append(movements,
                                          [lot |-> a.lot, movement_type |-> a.movement_type,
                                           quantity |-> lastOp'.quantity])
                   /\ a.movement_type \in {"in", "out"} =>
                         lots' = [lots EXCEPT ![a.lot].remaining_quantity = @ + delta]]_vars

\* An `out` movement was refused by the bounds of a lot that an earlier
\* movement, still in the log, had drawn down.
MovementAppliedOnceWitness ==
    /\ lastOp.op = "StockMovementSave"
    /\ lastOp.err # "ok"
    /\ lastOp.arg.n = 0
    /\ ~lastOp.arg.skip_lot_update
    /\ lastOp.arg.movement_type = "out"
    /\ \E m \in DOMAIN movements :
          movements[m].lot = lastOp.arg.lot /\ movements[m].movement_type = "out"
    /\ lots[lastOp.arg.lot].remaining_quantity < lots[lastOp.arg.lot].quantity

\* C27: in every state, for every SaleItem the quantities of its SaleItemLot
\* rows sum to the line's quantity, every SaleItemLot has quantity >= 1 and
\* refers to a lot of the line's product, and no two SaleItemLot rows of a
\* line refer to the same lot.
SaleItemLotsWellFormed ==
    \A k \in DOMAIN items :
        LET rows == items[k].lot_items
        IN  /\ SumQuantity(rows) = items[k].quantity
            /\ \A n \in DOMAIN rows :
                  /\ rows[n].quantity >= 1
                  /\ rows[n].lot \in DOMAIN lots
                  /\ lots[rows[n].lot].product = k[2]
            /\ \A m, n \in DOMAIN rows : m # n => rows[m].lot # rows[n].lot

\* A line was just raised to more than one unit while lots of both products
\* are in stock.
SaleItemLotsWellFormedWitness ==
    /\ lastOp.op = "SaleItemModify"
    /\ lastOp.err = "ok"
    /\ items[<<lastOp.sale, lastOp.product>>].quantity > 1
    /\ \E i, j \in DOMAIN lots : lots[i].product # lots[j].product

\* C28: a stored sale has status draft only when its amount_paid <= 0 and its
\* total_amount > 0, and a sale whose total_amount is 0 and that has no
\* payment (a new sale, a sale that lost its last line) has status paid.
DraftOnlyWhenOwing ==
    \A s \in DOMAIN sales :
        /\ sales[s].status = "draft" =>
              sales[s].amount_paid <= 0 /\ sales[s].total_amount > 0
        /\ (/\ sales[s].total_amount = 0
            /\ \A p \in DOMAIN payments : payments[p].sale # s) =>
              sales[s].status = "paid"

\* A sale without payments just got its first line: it had total_amount 0
\* and status paid, and is now a draft.
DraftOnlyWhenOwingWitness ==
    /\ lastOp.op = "SaleItemCreate"
    /\ lastOp.err = "ok"
    /\ {k \in DOMAIN items : k[1] = lastOp.sale} = {<<lastOp.sale, lastOp.product>>}
    /\ \A p \in DOMAIN payments : payments[p].sale # lastOp.sale
    /\ sales[lastOp.sale].status = "draft"

(***************************************************************************)
(* A whole sale is deleted.  Sale defines no delete of its own and src     *)
(* connects no signal: the rows of SaleItem, SaleItemLot and Payment that  *)
(* refer to the sale go with it through on_delete=CASCADE, which removes   *)
(* the rows without calling SaleItem.delete or Payment.delete.             *)
(***************************************************************************)
\* sale.delete().
SaleDelete(sale) ==
    /\ sale \in DOMAIN sales
    /\ sales' = Without(sales, sale)
    /\ items' = [k \in {x \in DOMAIN items : x[1] # sale} |-> items[k]]
    /\ payments' = [p \in {x \in DOMAIN payments : payments[x].sale # sale} |-> payments[p]]
    /\ lastOp' = Op("SaleDelete", "ok", sale, 0, 0,
                    [customer |-> sales[sale].customer,
                     balance_due |-> sales[sale].balance_due], NoAlloc, DB)
    /\ UNCHANGED <<today, lots, movements, customers, txns>>

NextDelete ==
    \/ \E customer \in Customers : SaleCreate(customer)
    \/ \E sale \in SaleIds, quantity \in Quantities : SaleItemCreate(sale, 1, quantity)
    \/ \E sale \in SaleIds, amount \in Amounts : PaymentCreate(sale, amount)
    \/ \E sale \in SaleIds : SaleDelete(sale)

SpecDelete == InitSettle /\ [][NextDelete]_vars

\* C29: deleting a sale gives back to every lot the quantity the sale's
\* SaleItemLot rows record against it, and appends `in` stock movements that
\* add up, per lot, to that quantity.
SaleDeleteRestoresStock ==
    [][lastOp'.op = "SaleDelete" =>
          LET lines == {k \in DOMAIN items : k[1] = lastOp'.sale}
              added == SubSeq(movements', Len(movements) + 1, Len(movements'))
          IN  \A i \in DOMAIN lots :
                 /\ lots'[i].remaining_quantity
                      = lots[i].remaining_quantity + DrawnBySale(lines, items, i)
                 /\ NetMovement(added, i) = DrawnBySale(lines, items, i)]_vars

\* C30: after a sale with a positive balance_due is deleted, the
\* credit_balance of its customer is the sum of the positive balance_due of
\* the sales the customer still has.
SaleDeleteUpdatesCredit ==
    (/\ lastOp.op = "SaleDelete"
     /\ lastOp.arg.balance_due > 0
     /\ lastOp.arg.customer # NoCustomer) =>
        customers[lastOp.arg.customer] = CreditOwed(lastOp.arg.customer)

====
